---- MODULE Spec2Model ----
(***************************************************************************)
(* A model of the rawrxd RAR metadata decoder: the three block iterators   *)
(* (rar14, rar15, rar50), the vint codec and the rar50 extra-area record   *)
(* iterator.                                                               *)
(*                                                                         *)
(* u64 values of the block iterators.  TLC integers are 32 bits wide, so a *)
(* u64 is represented by its residue modulo 2^64 taken in a window around  *)
(* 0: a residue r >= 0 stands for the value r, a residue r < 0 stands for  *)
(* the value 2^64 + r (a value just below 2^64).  Add64 is exact 64-bit    *)
(* addition on such residues and reports whether the true sum left the     *)
(* 64-bit range (where a debug build panics and a release build wraps).    *)
(***************************************************************************)
EXTENDS Integers, Sequences, FiniteSets, TLC

(***************************************************************************)
(* Bounds of the model.                                                    *)
(***************************************************************************)
\* largest file length
MaxFileSize == 33
\* largest (small) declared header size
MaxHeaderSize == 0
\* largest (small) declared data size
MaxDataSize == 1
\* largest number of bytes a header's variable-length part adds to a read
MaxTail == 1
\* how far below 2^64 the huge 64-bit inputs reach
MaxNear == 1
\* longest byte stream read_vint is run on when the bytes are arbitrary
MaxVintStreamLen == 11
\* largest stream position read_vint starts from
MaxVintStart == 1
\* length of the byte stream the record iterator runs on
MaxStreamLen == 5
\* largest stream position RecordIterator::new is called at
MaxAreaStart == 1
\* largest number of records in an extra area given to parse_records
MaxRecords == 3
\* longest name (before the separator) of a legacy file-name field
MaxNameLen == 4
\* longest byte-code (after the separator) of a legacy file-name field
MaxCodeLen == 4
\* largest number of characters (or broken pieces) of a rar50 name
MaxNameChars == 3
\* largest number of pieces (signatures and parts of them) of a searched stream
MaxPieces == 3
\* how far before the end of the search window the pieces may begin
MaxBeforeLimit == 10

(***************************************************************************)
(* 64-bit arithmetic on residues.                                          *)
(***************************************************************************)
IsHuge(x) == x < 0

\* a + b on u64: the wrapped sum, and whether the true sum exceeds 2^64 - 1
Add64(a, b) ==
    [val |-> a + b,
     overflow |-> \/ IsHuge(a) /\ IsHuge(b)
                  \/ IsHuge(a) /\ ~IsHuge(b) /\ a + b >= 0
                  \/ ~IsHuge(a) /\ IsHuge(b) /\ a + b >= 0]

\* a > b on u64
Gt64(a, b) ==
    \/ IsHuge(a) /\ ~IsHuge(b)
    \/ IsHuge(a) = IsHuge(b) /\ a > b

\* The mathematical (unbounded) value hi * 2^64 + lo of a u64 residue, and
\* sums and comparisons of such values (|lo| stays far below 2^64).
Wide(x) == [hi |-> IF IsHuge(x) THEN 1 ELSE 0, lo |-> x]
WideAdd(a, b) == [hi |-> a.hi + b.hi, lo |-> a.lo + b.lo]
WideLeq(a, b) == a.hi < b.hi \/ (a.hi = b.hi /\ a.lo <= b.lo)
WideEq(a, b) == a.hi = b.hi /\ a.lo = b.lo

(***************************************************************************)
(* State.                                                                  *)
(***************************************************************************)
VARIABLES
    format,                 \* which block iterator runs: "rar14", "rar15", "rar50"
    overflow_checks,        \* the build: TRUE panics on integer overflow, FALSE wraps
    file_size,              \* BlockIterator.file_size
    start_in_file,          \* the offset given to BlockIterator::new was <= file_size
    next_offset,            \* BlockIterator.next_offset
    end_of_archive_reached, \* BlockIterator.end_of_archive_reached (rar15, rar50)
    has_read_main_block,    \* BlockIterator.has_read_main_block (rar14)
    decoded,                \* what the bytes at the offset read last decode to
    last,                   \* the item the latest call of next() returned
    prev_end,               \* offset + header_size + data_size (unbounded) of the
                            \* Ok block yielded last before the latest call, or
                            \* the start offset when there was none
    ok_before,              \* an Ok block was yielded before the latest call
    err_before,             \* an Err item was yielded before the latest call
    end_before,             \* an EndArchive block was yielded before the latest call
    idle_calls,             \* the number, modulo 2, of the calls of next() since
                            \* the last one that yielded an Ok block
    vint_stream,            \* the bytes of the reader given to read_vint
    vint_start,             \* the reader's position when read_vint is called
    vint_pos,               \* the reader's position
    vint_input,             \* the u64 whose encoding lies at vint_start, if any
    vint_ret,               \* what read_vint returned
    stream,                 \* the bytes of the reader given to RecordIterator
    area_start,             \* the reader's position at RecordIterator::new
    extra_area_size,        \* the size given to RecordIterator::new
    end_position,           \* RecordIterator.end_position
    next_record_position,   \* RecordIterator.next_record_position
    record,                 \* the item the latest call of next() returned
    expected_start,         \* where the record after the Ok records so far starts
    arg,                    \* the input of the function under check
    ret                     \* what the function returned

iter_vars == <<format, overflow_checks, file_size, start_in_file, next_offset,
               end_of_archive_reached, has_read_main_block, decoded,
               last, prev_end, ok_before, err_before, end_before, idle_calls>>

vint_vars == <<vint_stream, vint_start, vint_pos, vint_input, vint_ret>>

rec_vars == <<stream, area_start, extra_area_size, end_position,
              next_record_position, record, expected_start>>

call_vars == <<arg, ret>>

vars == <<iter_vars, vint_vars, rec_vars, call_vars>>

\* the function has not been called yet
NotCalled == [res |-> "none"]

\* no function is under check
CallUnused ==
    /\ arg = <<>>
    /\ ret = NotCalled

(***************************************************************************)
(* Results of reading one block header.                                    *)
(***************************************************************************)
NoBlock == [kind |-> "NoBlock", offset |-> 0, header_size |-> 0, data_size |-> 0]

BlockOf(kind, offset, header_size, data_size) ==
    [kind |-> kind, offset |-> offset, header_size |-> header_size,
     data_size |-> data_size]

\* io::Result<Block> of a block reader, or a panic inside it
ReadOk(block) == [res |-> "block", err |-> "None", block |-> block]
ReadErr(e) == [res |-> "err", err |-> e, block |-> NoBlock]
ReadPanic == [res |-> "panic", err |-> "None", block |-> NoBlock]

\* read_exact of len bytes at offset succeeds iff they lie inside the file
InFile(offset, len, fsize) == ~IsHuge(offset) /\ offset + len <= fsize

(***************************************************************************)
(* rar15: Block::read and the block readers it dispatches to.  The inputs  *)
(* are the fields the bytes at the offset hold: the block type, the        *)
(* declared header size, the declared data size and the number of bytes    *)
(* the header's optional and variable-length fields add.                   *)
(***************************************************************************)
Rar15Kinds == {"Main", "File", "Service", "EndArchive", "Comment", "Av", "Sub",
               "Protect", "Sign", "Unknown"}

\* bytes every read of the kind consumes: the 7 common bytes and the fixed fields
Rar15FixedLen(kind) ==
    CASE kind = "Main" -> 13
      [] kind = "File" -> 32
      [] kind = "Service" -> 32
      [] kind = "EndArchive" -> 7
      [] kind = "Comment" -> 13
      [] kind = "Av" -> 14
      [] kind = "Sub" -> 14
      [] kind = "Protect" -> 26
      [] kind = "Sign" -> 15
      [] kind = "Unknown" -> 7

\* bytes the flag-gated and variable-length fields can add
Rar15Tails(kind) ==
    CASE kind = "Main" -> {0, 1}
      [] kind = "EndArchive" -> {0, 2, 4, 6}
      [] kind = "Unknown" -> {0, 4}
      [] kind \in {"File", "Service", "Sub"} -> 0..MaxTail
      [] OTHER -> {0}

\* the kinds whose data_size() is a field of the header (0 for the others)
Rar15HasData(kind, tail) ==
    \/ kind \in {"File", "Service", "Sub", "Protect"}
    \/ kind = "Unknown" /\ tail = 4

Rar15BlockRead(offset, fsize, kind, header_size, data_size, tail) ==
    IF kind = "Service"
    THEN \* name_size = tail; sub_data_size = header_size - name_size - SIZE
         IF ~InFile(offset, Rar15FixedLen(kind) + tail, fsize)
         THEN ReadErr("UnexpectedEof")
         ELSE IF header_size < tail + 32
              THEN ReadPanic
              ELSE IF ~InFile(offset, header_size, fsize)
                   THEN ReadErr("UnexpectedEof")
                   ELSE ReadOk(BlockOf(kind, offset, header_size, data_size))
    ELSE IF ~InFile(offset, Rar15FixedLen(kind) + tail, fsize)
         THEN ReadErr("UnexpectedEof")
         ELSE ReadOk(BlockOf(kind, offset, header_size,
                             IF Rar15HasData(kind, tail) THEN data_size ELSE 0))

\* the declared sizes tried: every small value
HeaderSizes == 0..MaxHeaderSize
\* the declared data sizes: small ones, and one that exceeds any file
DataSizes == (0..MaxDataSize) \cup {MaxFileSize + 1}

\* every result Block::read can give at the offset, over all file contents:
\* any kind, any small header size or the size of the bytes actually read
Rar15Reads(offset, fsize) ==
    UNION {UNION {{Rar15BlockRead(offset, fsize, kind, hs, ds, tail) :
                      hs \in HeaderSizes \cup {Rar15FixedLen(kind) + tail},
                      ds \in DataSizes} :
                  tail \in Rar15Tails(kind)} :
           kind \in Rar15Kinds}

(***************************************************************************)
(* BlockSize::size and the bounds check of read_block (rar14 and rar15).   *)
(***************************************************************************)
\* an addition as the build performs it: a panic on overflow with overflow
\* checks, the wrapped value otherwise
Plus(a, b, checks) ==
    [panic |-> Add64(a, b).overflow /\ checks, val |-> Add64(a, b).val]

\* BlockSize::size: header_size() + data_size()
Size(block, checks) == Plus(block.header_size, block.data_size, checks)

\* Validate without the check of offset + size against the file size
Validate_NoSizeBound(block, fsize, checks) ==
    LET size == Size(block, checks)
        header_end == Plus(block.offset, block.header_size, checks)
    IN  IF size.panic THEN "panic"
        ELSE IF size.val = 0 THEN "corrupt"
        ELSE IF header_end.panic THEN "panic"
        ELSE IF Gt64(header_end.val, fsize) THEN "corrupt"
        ELSE "ok"

\* the check of read_block: "ok", "corrupt" (Error::CorruptHeader) or "panic"
Validate(block, fsize, checks) ==
    LET size == Size(block, checks)
        header_end == Plus(block.offset, block.header_size, checks)
        block_end == Plus(block.offset, size.val, checks)
    IN  IF size.panic THEN "panic"
        ELSE IF size.val = 0 THEN "corrupt"
        ELSE IF header_end.panic THEN "panic"
        ELSE IF Gt64(header_end.val, fsize) THEN "corrupt"
        ELSE IF block_end.panic THEN "panic"
        ELSE IF Gt64(block_end.val, fsize) THEN "corrupt"
        ELSE "ok"

(***************************************************************************)
(* Items of the iterators: Option<RarResult<Block>>, or a panic.           *)
(***************************************************************************)
\* io: whether the call sought or read the stream
Item(tag, err, block, io) == [tag |-> tag, err |-> err, block |-> block, io |-> io]
ItemStart == Item("start", "None", NoBlock, FALSE)
ItemNone == Item("none", "None", NoBlock, FALSE)
ItemOk(block) == Item("ok", "None", block, TRUE)
ItemErr(e) == Item("err", e, NoBlock, TRUE)
ItemPanic == Item("panic", "None", NoBlock, TRUE)

NotDecoded == [at |-> 0, by |-> "nothing", read |-> ReadPanic]

\* The file does not change: reading the same offset with the same reader
\* again decodes the same bytes.
ReadsAt(by, offset, all) ==
    IF decoded.by = by /\ decoded.at = offset THEN {decoded.read} ELSE all

\* the unbounded value of offset + header_size + data_size
BlockEnd(block) ==
    WideAdd(Wide(block.offset), WideAdd(Wide(block.header_size), Wide(block.data_size)))

\* what every call of next() records about the calls before it
Bookkeeping(item) ==
    /\ last' = item
    /\ ok_before' = (ok_before \/ last.tag = "ok")
    /\ err_before' = (err_before \/ last.tag = "err")
    /\ end_before' = (end_before \/ (last.tag = "ok" /\ last.block.kind = "EndArchive"))
    /\ prev_end' = IF last.tag = "ok" THEN BlockEnd(last.block) ELSE prev_end
    /\ idle_calls' = IF item.tag = "ok" THEN 0 ELSE 1 - idle_calls
    /\ UNCHANGED <<format, overflow_checks, file_size, start_in_file>>
    /\ UNCHANGED <<vint_vars, rec_vars, call_vars>>

\* a None that rewinds the iterator
ReturnNone_Rewinds ==
    /\ Bookkeeping(ItemNone)
    /\ next_offset' = 0
    /\ UNCHANGED <<end_of_archive_reached, has_read_main_block, decoded>>

\* next() returns None without touching the stream
ReturnNone ==
    /\ Bookkeeping(ItemNone)
    /\ UNCHANGED <<next_offset, end_of_archive_reached, has_read_main_block, decoded>>

\* The result of the read at next_offset by the reader `by` is remembered for as
\* long as the iterator stays at that offset (an offset left behind is not read
\* again: every block has a size above 0, and within the bounds of the model a
\* wrapped next_offset of rar50 still lies beyond the block).
Remember(by, read) ==
    decoded' = IF next_offset' = next_offset
               THEN [at |-> next_offset, by |-> by, read |-> read]
               ELSE NotDecoded

\* CheckAndAdvance without the end-of-archive flag
CheckAndAdvance_NoEndFlag(block) ==
    LET verdict == Validate(block, file_size, overflow_checks)
    IN  CASE verdict = "panic" ->
                /\ Bookkeeping(ItemPanic)
                /\ UNCHANGED <<next_offset, end_of_archive_reached>>
          [] verdict = "corrupt" ->
                /\ Bookkeeping(ItemErr("CorruptHeader"))
                /\ UNCHANGED <<next_offset, end_of_archive_reached>>
          [] verdict = "ok" ->
                /\ Bookkeeping(ItemOk(block))
                /\ next_offset' = Plus(block.offset, Size(block, overflow_checks).val,
                                       overflow_checks).val
                /\ UNCHANGED end_of_archive_reached

\* The tail of read_block (rar14, rar15), once the block reader returned a
\* block: the bounds check, then next_offset and the end-of-archive flag.
CheckAndAdvance(block) ==
    LET verdict == Validate(block, file_size, overflow_checks)
    IN  CASE verdict = "panic" ->
                /\ Bookkeeping(ItemPanic)
                /\ UNCHANGED <<next_offset, end_of_archive_reached>>
          [] verdict = "corrupt" ->
                /\ Bookkeeping(ItemErr("CorruptHeader"))
                /\ UNCHANGED <<next_offset, end_of_archive_reached>>
          [] verdict = "ok" ->
                /\ Bookkeeping(ItemOk(block))
                /\ next_offset' = Plus(block.offset, Size(block, overflow_checks).val,
                                       overflow_checks).val
                /\ end_of_archive_reached' =
                       (end_of_archive_reached
                        \/ block.kind = "EndArchive")


(***************************************************************************)
(* rar15: BlockIterator::read_block and Iterator::next.                    *)
(***************************************************************************)
Rar15ReadBlock ==
    \E read \in ReadsAt("rar15::Block", next_offset,
                        Rar15Reads(next_offset, file_size)) :
        /\ UNCHANGED has_read_main_block
        /\ CASE read.res = "err" ->
                  /\ Bookkeeping(ItemErr(read.err))
                  /\ UNCHANGED <<next_offset, end_of_archive_reached>>
             [] read.res = "panic" ->
                  /\ Bookkeeping(ItemPanic)
                  /\ UNCHANGED <<next_offset, end_of_archive_reached>>
             [] read.res = "block" -> CheckAndAdvance(read.block)
        /\ Remember("rar15::Block", read)

Rar15Next ==
    /\ format = "rar15"
    /\ last.tag # "panic"
    /\ IF end_of_archive_reached
       THEN ReturnNone
       ELSE IF next_offset = file_size
            THEN ReturnNone
            ELSE Rar15ReadBlock

(***************************************************************************)
(* rar14: MainBlock::read, FileBlock::read, BlockIterator::read_block and  *)
(* Iterator::next.                                                         *)
(***************************************************************************)
\* header_size = read_u16 - SIGNATURE_SIZE on u16, then the flags byte
Rar14MainRead(offset, fsize, raw_size, checks) ==
    IF ~InFile(offset, 2, fsize) THEN ReadErr("UnexpectedEof")
    ELSE IF raw_size < 4 /\ checks THEN ReadPanic
    ELSE IF ~InFile(offset, 3, fsize) THEN ReadErr("UnexpectedEof")
    ELSE ReadOk(BlockOf("Main", offset,
                        IF raw_size < 4 THEN 65536 + raw_size - 4 ELSE raw_size - 4,
                        0))

\* 21 bytes of fixed fields, then the comment and the name (tail bytes)
Rar14FileRead(offset, fsize, header_size, packed_data_size, tail) ==
    IF ~InFile(offset, 21 + tail, fsize) THEN ReadErr("UnexpectedEof")
    ELSE ReadOk(BlockOf("File", offset, header_size, packed_data_size))

Rar14MainReads(offset, fsize, checks) ==
    {Rar14MainRead(offset, fsize, raw, checks) :
        raw \in (0..3) \cup {4 + hs : hs \in HeaderSizes \cup {3}}}

Rar14FileReads(offset, fsize) ==
    UNION {{Rar14FileRead(offset, fsize, hs, ds, tail) :
               hs \in HeaderSizes \cup {21 + tail}, ds \in DataSizes} :
           tail \in 0..MaxTail}

Rar14ReadBlock ==
    IF ~has_read_main_block
    THEN \E read \in ReadsAt("rar14::MainBlock", next_offset,
                             Rar14MainReads(next_offset, file_size, overflow_checks)) :
            /\ CASE read.res = "err" ->
                      /\ Bookkeeping(ItemErr(read.err))
                      /\ UNCHANGED <<next_offset, end_of_archive_reached,
                                     has_read_main_block>>
                 [] read.res = "panic" ->
                      /\ Bookkeeping(ItemPanic)
                      /\ UNCHANGED <<next_offset, end_of_archive_reached,
                                     has_read_main_block>>
                 [] read.res = "block" ->
                      /\ has_read_main_block' = TRUE
                      /\ CheckAndAdvance(read.block)
            /\ Remember("rar14::MainBlock", read)
    ELSE \E read \in ReadsAt("rar14::FileBlock", next_offset,
                             Rar14FileReads(next_offset, file_size)) :
            /\ UNCHANGED has_read_main_block
            /\ CASE read.res = "err" ->
                      /\ Bookkeeping(ItemErr(read.err))
                      /\ UNCHANGED <<next_offset, end_of_archive_reached>>
                 [] read.res = "block" -> CheckAndAdvance(read.block)
            /\ Remember("rar14::FileBlock", read)

Rar14Next ==
    /\ format = "rar14"
    /\ last.tag # "panic"
    /\ IF next_offset = file_size
       THEN ReturnNone
       ELSE Rar14ReadBlock

(***************************************************************************)
(* rar50: Block::read, BlockIterator::read_block and Iterator::next.       *)
(***************************************************************************)
Rar50Kinds == {"Main", "File", "Service", "Crypt", "EndArchive", "Unknown"}

\* bytes every read of the kind consumes after the header-size vint: the type
\* and flags vints and the kind's fixed fields, every vint in its shortest form
Rar50FixedLen(kind) ==
    CASE kind = "Main" -> 3
      [] kind = "File" -> 8
      [] kind = "Service" -> 8
      [] kind = "Crypt" -> 21
      [] kind = "EndArchive" -> 3
      [] kind = "Unknown" -> 2

\* the kinds that run parse_records over the extra area
Rar50HasRecords(kind) == kind \in {"Main", "File", "Service"}

\* the length of the vint that holds a value of the model
VintLen(v) == IF IsHuge(v) THEN 10 ELSE 1

\* header_size: the vint read, vint_size its length; data_size: the data-size
\* vint when the flags have has_data_area; tail: bytes the optional and
\* variable-length fields add; bad_record: an extra-area record whose size is
\* below the size of its type vint, on which RecordIterator panics
Rar50BlockRead(offset, fsize, kind, header_size, has_data_area, data_size, tail, bad_record, checks) ==
    LET vint_size == VintLen(header_size)
        sum == Plus(header_size, vint_size, checks)
        full_header_size == Plus(sum.val, 4, checks)
        len == 4 + vint_size + Rar50FixedLen(kind) + tail
               + (IF has_data_area THEN VintLen(data_size) ELSE 0)
    IN  IF ~InFile(offset, 4 + vint_size, fsize) THEN ReadErr("UnexpectedEof")
        ELSE IF sum.panic \/ full_header_size.panic THEN ReadPanic
        ELSE IF ~InFile(offset, len, fsize) THEN ReadErr("UnexpectedEof")
        ELSE IF Rar50HasRecords(kind) /\ bad_record THEN ReadPanic
        ELSE ReadOk(BlockOf(kind, offset, full_header_size.val,
                            IF has_data_area THEN data_size ELSE 0))

\* the 64-bit values just below 2^64
HugeSizes == {-n : n \in 1..MaxNear}

Rar50Reads(offset, fsize, checks) ==
    UNION {UNION {{Rar50BlockRead(offset, fsize, kind, hs, has_data, ds, tail,
                                  bad, checks) :
                      hs \in HeaderSizes \cup HugeSizes
                             \cup {Rar50FixedLen(kind) + tail},
                      has_data \in BOOLEAN,
                      ds \in DataSizes \cup HugeSizes,
                      bad \in BOOLEAN} :
                  tail \in 0..MaxTail} :
           kind \in Rar50Kinds}

\* Block::full_size of rar50: header_size + data_size
FullSize(block, checks) == Plus(block.header_size, block.data_size, checks)

\* read_block: no check of the block against file_size
Rar50ReadBlock ==
    \E read \in ReadsAt("rar50::Block", next_offset,
                        Rar50Reads(next_offset, file_size, overflow_checks)) :
        /\ UNCHANGED has_read_main_block
        /\ CASE read.res = "err" ->
                  /\ Bookkeeping(ItemErr(read.err))
                  /\ UNCHANGED <<next_offset, end_of_archive_reached>>
             [] read.res = "panic" ->
                  /\ Bookkeeping(ItemPanic)
                  /\ UNCHANGED <<next_offset, end_of_archive_reached>>
             [] read.res = "block" ->
                  LET size == FullSize(read.block, overflow_checks)
                      end == Plus(read.block.offset, size.val, overflow_checks)
                  IN  IF size.panic \/ end.panic
                      THEN /\ Bookkeeping(ItemPanic)
                           /\ UNCHANGED <<next_offset, end_of_archive_reached>>
                      ELSE /\ Bookkeeping(ItemOk(read.block))
                           /\ next_offset' = end.val
                           /\ end_of_archive_reached' =
                                  (end_of_archive_reached
                                   \/ read.block.kind = "EndArchive")
        /\ Remember("rar50::Block", read)

Rar50Next ==
    /\ format = "rar50"
    /\ last.tag # "panic"
    /\ IF end_of_archive_reached
       THEN ReturnNone
       ELSE IF next_offset = file_size
            THEN ReturnNone
            ELSE Rar50ReadBlock

(***************************************************************************)
(* read.rs: read_u8 and read_vint.  A reader is a sequence of bytes (0..255)*)
(* and a position.  The u64 read_vint builds is the set of the positions    *)
(* (0..63) of its 1 bits: | is set union and << moves the positions up,     *)
(* losing those that leave the 64 bits.                                     *)
(***************************************************************************)
MAX_VINT_SIZE == 10

\* the 1 bits of a byte
Bits(byte) == {b \in 0..7 : (byte \div (2 ^ b)) % 2 = 1}

\* v << shift on u64
Shl(v, shift) == {b + shift : b \in v} \cap (0..63)

read_u8(bytes, pos) ==
    IF pos >= 0 /\ pos < Len(bytes)
    THEN [ok |-> TRUE, byte |-> bytes[pos + 1], pos |-> pos + 1]
    ELSE [ok |-> FALSE, byte |-> 0, pos |-> pos]

VintOk(vint, size, pos) == [res |-> "Ok", vint |-> vint, size |-> size, pos |-> pos]
VintErr(pos) == [res |-> "Err", vint |-> {}, size |-> 0, pos |-> pos]
VintIdle == [res |-> "none", vint |-> {}, size |-> 0, pos |-> 0]

\* Accumulate with the shift of read_vint_sized (8 bits a byte)
Accumulate_Shift8(vint, byte, i) == vint \cup Shl(Bits(byte % 128), i * 8)

\* Accumulate without masking the continuation bit
Accumulate_NoMask(vint, byte, i) == vint \cup Shl(Bits(byte), i * 7)

\* vint |= ((byte & !0x80) as u64) << (i * 7)
Accumulate(vint, byte, i) == vint \cup Shl(Bits(byte % 128), i * 7)

\* the loop of read_vint from iteration i on
RECURSIVE read_vint_from(_, _, _, _)
read_vint_from(bytes, pos, i, vint) ==
    IF i = MAX_VINT_SIZE
    THEN VintOk(vint, MAX_VINT_SIZE, pos)
    ELSE LET r == read_u8(bytes, pos)
         IN  IF ~r.ok
             THEN VintErr(r.pos)
             ELSE LET acc == Accumulate(vint, r.byte, i)
                  IN  IF r.byte < 128
                      THEN VintOk(acc, i + 1, r.pos)
                      ELSE read_vint_from(bytes, r.pos, i + 1, acc)

read_vint(bytes, pos) == read_vint_from(bytes, pos, 0, {})

\* The minimal little-endian base-128 encoding of a u64: 7 value bits a byte,
\* the high bit set on every byte but the last.
EncodedLen(v) ==
    IF v = {} THEN 1 ELSE ((CHOOSE b \in v : \A c \in v : c <= b) \div 7) + 1

RECURSIVE SumBits(_)
SumBits(v) ==
    IF v = {} THEN 0
    ELSE LET b == CHOOSE x \in v : TRUE IN (2 ^ b) + SumBits(v \ {b})

Encode(v) ==
    [i \in 1..EncodedLen(v) |->
        SumBits({b \in 0..6 : (7 * (i - 1) + b) \in v})
        + (IF i < EncodedLen(v) THEN 128 ELSE 0)]

\* the reader is not in use
VintUnused ==
    /\ vint_stream = <<>>
    /\ vint_start = 0
    /\ vint_pos = 0
    /\ vint_input = {}
    /\ vint_ret = VintIdle

\* one call of read_vint on the reader
ReadVint ==
    /\ format = "vint"
    /\ vint_ret.res = "none"
    /\ vint_ret' = read_vint(vint_stream, vint_pos)
    /\ vint_pos' = vint_ret'.pos
    /\ UNCHANGED <<vint_stream, vint_start, vint_input>>
    /\ UNCHANGED <<iter_vars, rec_vars, call_vars>>

(***************************************************************************)
(* rar50/record_iterator.rs: RecordIterator.                               *)
(***************************************************************************)
\* a u64 below 2^16, as a number
IsSmall(v) == v \subseteq (0..15)

NoRecord ==
    [start |-> 0, record_size |-> 0, byte_size |-> 0, type_byte_size |-> 0,
     record_type |-> {}, data |-> <<>>]

RecItem(tag, rec) == [tag |-> tag, rec |-> rec]

\* a >= b on u64
Geq64(a, b) == ~Gt64(b, a)

\* PayloadLen reading the payload as record_size bytes
PayloadLen_WholeRecord(record_size, type_byte_size) == record_size

\* record_size as usize - type_byte_size as usize
PayloadLen(record_size, type_byte_size) == record_size - type_byte_size

\* self.next_record_position += record_size + byte_size as u64
Advance(position, record_size, byte_size, checks) ==
    LET step == Plus(record_size, byte_size, checks)
        sum == Plus(position, step.val, checks)
    IN  [panic |-> step.panic \/ sum.panic, val |-> sum.val]

\* read_record: the outcomes of decoding the record at next_record_position
ReadRecord(bytes, position, checks) ==
    LET size == read_vint(bytes, position)
        type == read_vint(bytes, size.pos)
    IN  IF size.res = "Err" \/ type.res = "Err"
        THEN {[tag |-> "err", rec |-> NoRecord, position |-> position]}
        ELSE IF ~IsSmall(size.vint)
        THEN \* a buffer far longer than the stream: the allocation fails or
             \* read_exact finds the end of the stream
             {[tag |-> "err", rec |-> NoRecord, position |-> position],
              [tag |-> "panic", rec |-> NoRecord, position |-> position]}
        ELSE LET record_size == SumBits(size.vint)
                 len == PayloadLen(record_size, type.size)
                 next == Advance(position, record_size, size.size, checks)
             IN  IF len < 0
                 THEN {[tag |-> "panic", rec |-> NoRecord, position |-> position]}
                 ELSE IF type.pos + len > Len(bytes)
                 THEN {[tag |-> "err", rec |-> NoRecord, position |-> position]}
                 ELSE IF next.panic
                 THEN {[tag |-> "panic", rec |-> NoRecord, position |-> position]}
                 ELSE {[tag |-> "ok",
                        rec |-> [start |-> position,
                                 record_size |-> record_size,
                                 byte_size |-> size.size,
                                 type_byte_size |-> type.size,
                                 record_type |-> type.vint,
                                 data |-> SubSeq(bytes, type.pos + 1, type.pos + len)],
                        position |-> next.val]}

\* the iterator is not in use
RecordUnused ==
    /\ stream = <<>>
    /\ area_start = 0
    /\ extra_area_size = 0
    /\ end_position = 0
    /\ next_record_position = 0
    /\ record = RecItem("none", NoRecord)
    /\ expected_start = 0

\* Iterator::next of RecordIterator
RecordStep ==
    /\ record.tag # "panic"
    /\ IF Geq64(next_record_position, end_position)
       THEN /\ record' = RecItem("none", NoRecord)
            /\ UNCHANGED <<next_record_position, expected_start>>
       ELSE \E out \in ReadRecord(stream, next_record_position, overflow_checks) :
               /\ record' = RecItem(out.tag, out.rec)
               /\ next_record_position' = out.position
               /\ expected_start' =
                      IF record.tag = "ok"
                      THEN record.rec.start + record.rec.record_size
                           + record.rec.byte_size
                      ELSE expected_start
    /\ UNCHANGED <<stream, area_start, extra_area_size, end_position>>
    /\ UNCHANGED <<iter_vars, vint_vars>>

RecordNext ==
    /\ format = "records"
    /\ RecordStep
    /\ UNCHANGED call_vars

(***************************************************************************)
(* The specification of the block iterators.                               *)
(***************************************************************************)
\* BlockIterator::new: the file has MaxFileSize bytes and the iterator starts at
\* any offset inside it, at its end, past its end or just below 2^64 (the
\* iterators depend on the file only through the bytes from the start offset on)
StartOffsets == (0..(MaxFileSize + 1)) \cup HugeSizes

Init ==
    /\ format \in {"rar14", "rar15", "rar50"}
    /\ overflow_checks \in BOOLEAN
    /\ file_size = MaxFileSize
    /\ next_offset \in StartOffsets
    /\ start_in_file = (~IsHuge(next_offset) /\ next_offset <= file_size)
    /\ end_of_archive_reached = FALSE
    /\ has_read_main_block = FALSE
    /\ decoded = NotDecoded
    /\ last = ItemStart
    /\ prev_end = Wide(next_offset)
    /\ ok_before = FALSE
    /\ err_before = FALSE
    /\ end_before = FALSE
    /\ idle_calls = 0
    /\ VintUnused
    /\ RecordUnused
    /\ CallUnused

Next == Rar14Next \/ Rar15Next \/ Rar50Next

Spec == Init /\ [][Next]_vars

\* The rar14 and rar15 iterators with a caller that keeps calling next().
FairInit == Init /\ format \in {"rar14", "rar15"}

FairNext == Rar14Next \/ Rar15Next

FairSpec == FairInit /\ [][FairNext]_vars /\ WF_vars(FairNext)

\* no block iterator runs
IteratorUnused ==
    /\ file_size = 0
    /\ next_offset = 0
    /\ start_in_file = TRUE
    /\ end_of_archive_reached = FALSE
    /\ has_read_main_block = FALSE
    /\ decoded = NotDecoded
    /\ last = ItemStart
    /\ prev_end = Wide(0)
    /\ ok_before = FALSE
    /\ err_before = FALSE
    /\ end_before = FALSE
    /\ idle_calls = 0

(***************************************************************************)
(* The specification of read_vint: one call on a reader that holds either  *)
(* the encoding of a u64 or arbitrary bytes.                               *)
(***************************************************************************)
\* the first k bits set: 2^k - 1
LowBits(k) == {b \in 0..63 : b < k}

\* powers of two and their sums, and the values just below a power of two
VintValues == {LowBits(k) : k \in 0..64} \cup {{j, k} : j, k \in 0..63}

VintBytes == {0, 1, 127, 128, 129, 255}

\* the bytes before the vint
Prefix(n) == [i \in 1..n |-> 255]

\* what follows the encoding in the stream
VintTails == {<<>>, <<255>>}

\* streams of one byte value with one byte replaced
PatternStreams ==
    {[i \in 1..len |-> IF i = p THEN g ELSE f] :
        len \in 0..MaxVintStreamLen, p \in 1..MaxVintStreamLen,
        f \in VintBytes, g \in VintBytes}

\* no u64 is encoded at vint_start
NoInput == {64}

VintInit ==
    /\ format = "vint"
    /\ overflow_checks = TRUE
    /\ IteratorUnused
    /\ RecordUnused
    /\ CallUnused
    /\ vint_start \in 0..MaxVintStart
    /\ vint_pos = vint_start
    /\ vint_ret = VintIdle
    /\ \/ /\ vint_input \in VintValues
          /\ \E tail \in VintTails :
                vint_stream = Prefix(vint_start) \o Encode(vint_input) \o tail
       \/ /\ vint_input = NoInput
          /\ \E bytes \in PatternStreams :
                vint_stream = Prefix(vint_start) \o bytes

VintNext == ReadVint

VintSpec == VintInit /\ [][VintNext]_vars

(***************************************************************************)
(* The specification of the record iterator: RecordIterator::new at any    *)
(* position of a stream of MaxStreamLen bytes, then calls of next().       *)
(***************************************************************************)
RecordBytes == {0, 1, 2, 130}

RecordInit ==
    /\ format = "records"
    /\ overflow_checks \in BOOLEAN
    /\ IteratorUnused
    /\ VintUnused
    /\ CallUnused
    /\ stream \in [1..MaxStreamLen -> RecordBytes]
    /\ area_start \in 0..MaxAreaStart
    /\ extra_area_size \in (0..(MaxStreamLen + 1)) \cup HugeSizes
    /\ end_position = Plus(area_start, extra_area_size, overflow_checks).val
    /\ next_record_position = area_start
    /\ record = IF Plus(area_start, extra_area_size, overflow_checks).panic
                THEN RecItem("panic", NoRecord)
                ELSE RecItem("start", NoRecord)
    /\ expected_start = area_start

RecordSpec == RecordInit /\ [][RecordNext]_vars

(***************************************************************************)
(* Properties of the block iterators.                                      *)
(***************************************************************************)
Legacy == format \in {"rar14", "rar15"}

\* offset + header_size <= file_size and offset + header_size + data_size <=
\* file_size, on unbounded integers
InBounds(block, fsize) ==
    /\ WideLeq(WideAdd(Wide(block.offset), Wide(block.header_size)), Wide(fsize))
    /\ WideLeq(BlockEnd(block), Wide(fsize))

\* the block the latest call decoded when it did not yield it
Rejected == last.tag \in {"err", "panic"} /\ decoded.read.res = "block"

\* C1: once a rar14 or rar15 iterator has yielded an Err item, every later call
\* of next() returns None.
C1_ErrorIsTerminal == (Legacy /\ start_in_file /\ err_before) => last.tag = "none"

\* C2: every block a rar14 or rar15 iterator yields as Ok lies inside the file
\* (offset + header_size <= file_size, offset + header_size + data_size <=
\* file_size), and a decoded block outside these bounds is yielded as
\* Err(CorruptHeader).
C2_OkBlocksInBounds ==
    Legacy =>
        /\ last.tag = "ok" => InBounds(last.block, file_size)
        /\ (Rejected /\ ~InBounds(decoded.read.block, file_size))
               => (last.tag = "err" /\ last.err = "CorruptHeader")

\* a block whose header fits the file and whose data does not was rejected
C2_Witness ==
    /\ Legacy
    /\ Rejected
    /\ decoded.read.block.header_size > 0
    /\ WideLeq(WideAdd(Wide(decoded.read.block.offset),
                       Wide(decoded.read.block.header_size)), Wide(file_size))
    /\ ~WideLeq(BlockEnd(decoded.read.block), Wide(file_size))
    /\ last.err = "CorruptHeader"

\* C3: every block the rar15 iterator yields as Ok has header_size > 0.
C3_HeaderSizeAboveZero ==
    (format = "rar15" /\ last.tag = "ok") => last.block.header_size > 0

\* C4: every block the rar50 iterator yields as Ok lies inside the file, and the
\* iterator never moves next_offset beyond file_size.
C4_Rar50Bounds ==
    format = "rar50" =>
        /\ last.tag = "ok" => InBounds(last.block, file_size)
        /\ start_in_file => ~Gt64(next_offset, file_size)

\* C5: every Ok block starts where the Ok block before it ended (offset +
\* header_size + data_size), the first one at the offset given to the
\* constructor.
C5_Contiguity == last.tag = "ok" => WideEq(Wide(last.block.offset), prev_end)

\* C6: a rar14 or rar15 iterator started inside the file eventually returns
\* None (or the process has panicked).
C6_Terminates == (Legacy /\ start_in_file) => <>(last.tag \in {"none", "panic"})

\* the latest call decoded an EndArchive block
DecodedEndArchive ==
    \/ last.tag = "ok" /\ last.block.kind = "EndArchive"
    \/ Rejected /\ decoded.read.block.kind = "EndArchive"

C8_VintRoundTrip ==
    (format = "vint" /\ vint_input # NoInput /\ vint_ret.res # "none") =>
        /\ vint_ret.res = "Ok"
        /\ vint_ret.vint = vint_input
        /\ vint_ret.size = EncodedLen(vint_input)
        /\ vint_ret.size \in 1..10
        /\ vint_pos = vint_start + EncodedLen(vint_input)

\* a value with bit 63 set was read back from its 10 bytes, bytes following
C8_Witness ==
    /\ format = "vint"
    /\ vint_ret.res = "Ok"
    /\ 63 \in vint_input
    /\ 0 \in vint_input
    /\ vint_ret.size = 10
    /\ vint_start = 1
    /\ vint_pos < Len(vint_stream)

\* A u64 as four 16-bit limbs, least significant first.
Limbs(v) ==
    [k \in 1..4 |->
        SumBits({b - 16 * (k - 1) : b \in v \cap ((16 * (k - 1))..(16 * k - 1))})]

\* what (byte & 0x7f) * 2^(7*i) adds to limb k (before carries)
TermLimb(byte, i, k) ==
    LET x == (byte % 128) * (2 ^ ((7 * i) % 16))
        j == ((7 * i) \div 16) + 1
    IN  IF k = j THEN x % 65536 ELSE IF k = j + 1 THEN x \div 65536 ELSE 0

RECURSIVE RawLimb(_, _, _, _)
RawLimb(bytes, start, n, k) ==
    IF n = 0 THEN 0
    ELSE RawLimb(bytes, start, n - 1, k) + TermLimb(bytes[start + n], n - 1, k)

\* (sum over i in 0..n-1 of (byte[i] & 0x7f) * 2^(7*i)) mod 2^64 of the bytes
\* after position start, as limbs
SumMod64(bytes, start, n) ==
    LET s1 == RawLimb(bytes, start, n, 1)
        s2 == RawLimb(bytes, start, n, 2) + (s1 \div 65536)
        s3 == RawLimb(bytes, start, n, 3) + (s2 \div 65536)
        s4 == RawLimb(bytes, start, n, 4) + (s3 \div 65536)
    IN  <<s1 % 65536, s2 % 65536, s3 % 65536, s4 % 65536>>

\* the 10 bytes at vint_start all carry the continuation bit
TenContinuation ==
    /\ Len(vint_stream) >= vint_start + 10
    /\ \A i \in 1..10 : vint_stream[vint_start + i] >= 128

\* C9: read_vint reads at most 10 bytes; 10 bytes that all carry the
\* continuation bit give Ok with 10 bytes consumed and the value (sum of
\* (byte[i] & 0x7f) * 2^(7*i)) mod 2^64; an error is returned only when the
\* stream ends before a byte without the continuation bit or the 10th byte.
C9_AtMostTenBytes ==
    (format = "vint" /\ vint_ret.res # "none") =>
        /\ vint_pos - vint_start <= 10
        /\ TenContinuation =>
              /\ vint_ret.res = "Ok"
              /\ vint_ret.size = 10
              /\ vint_pos = vint_start + 10
              /\ Limbs(vint_ret.vint) = SumMod64(vint_stream, vint_start, 10)
        /\ vint_ret.res = "Err" =>
              /\ Len(vint_stream) - vint_start < 10
              /\ \A i \in (vint_start + 1)..Len(vint_stream) : vint_stream[i] >= 128

\* 10 continuation bytes, the last with value bits that do not fit, were read
C9_Witness ==
    /\ format = "vint"
    /\ TenContinuation
    /\ vint_stream[vint_start + 10] = 255
    /\ vint_stream[vint_start + 1] = 128
    /\ Len(vint_stream) > vint_start + 10
    /\ vint_ret.res = "Ok"

(***************************************************************************)
(* Properties of the record iterator.                                      *)
(***************************************************************************)
\* the n bytes after position start are a vint: all but the last carry the
\* continuation bit
IsVintAt(bytes, start, n) ==
    /\ n \in 1..MAX_VINT_SIZE
    /\ start + n <= Len(bytes)
    /\ \A i \in 1..(n - 1) : bytes[start + i] >= 128
    /\ bytes[start + n] < 128

\* the number the n bytes after position start encode
RECURSIVE NatAt(_, _, _)
NatAt(bytes, start, n) ==
    IF n = 0 THEN 0
    ELSE NatAt(bytes, start, n - 1) + (bytes[start + n] % 128) * (128 ^ (n - 1))

\* area start + extra_area_size, unbounded
AreaEnd == WideAdd(Wide(area_start), Wide(extra_area_size))

\* C10: a record the iterator yields starts where the record before it placed
\* it (the first at the area start) with the vint record_size on s bytes and the
\* vint record_type on t bytes, its payload is the record_size - t bytes that
\* follow, and the next record is placed at start + record_size + s; next()
\* reads a record only from a position below area start + extra_area_size and
\* returns None at the first position at or beyond it.
C10_RecordLayout ==
    format = "records" =>
        /\ record.tag = "ok" =>
              /\ record.rec.start = expected_start
              /\ IsVintAt(stream, record.rec.start, record.rec.byte_size)
              /\ record.rec.record_size
                     = NatAt(stream, record.rec.start, record.rec.byte_size)
              /\ IsVintAt(stream, record.rec.start + record.rec.byte_size,
                          record.rec.type_byte_size)
              /\ Len(record.rec.data)
                     = record.rec.record_size - record.rec.type_byte_size
              /\ record.rec.data
                     = SubSeq(stream,
                              record.rec.start + record.rec.byte_size
                                  + record.rec.type_byte_size + 1,
                              record.rec.start + record.rec.byte_size
                                  + record.rec.record_size)
              /\ next_record_position
                     = record.rec.start + record.rec.record_size
                       + record.rec.byte_size
              /\ ~WideLeq(AreaEnd, Wide(record.rec.start))
        /\ record.tag = "err" => ~WideLeq(AreaEnd, Wide(next_record_position))
        /\ (record.tag = "none" /\ ~Add64(area_start, extra_area_size).overflow)
               => WideLeq(AreaEnd, Wide(next_record_position))

\* a second record with a payload was yielded
C10_Witness ==
    /\ format = "records"
    /\ record.tag = "ok"
    /\ record.rec.start > area_start
    /\ Len(record.rec.data) >= 1

(***************************************************************************)
(* The functions checked on their own: Init draws the input `arg`, the one  *)
(* action applies the function and stores what it returns in `ret`.         *)
(***************************************************************************)
\* every variable but arg and ret is unused
OnlyCall(name) ==
    /\ format = name
    /\ overflow_checks = TRUE
    /\ IteratorUnused
    /\ VintUnused
    /\ RecordUnused
    /\ ret = NotCalled

\* the call of the function `name`, returning `result`
Call(name, result) ==
    /\ format = name
    /\ ret = NotCalled
    /\ ret' = result
    /\ UNCHANGED <<arg, iter_vars, vint_vars, rec_vars>>

(***************************************************************************)
(* macros.rs: parse_records!, as MainBlock::read and FileBlock::read of    *)
(* rar50 expand it.  The input is the items the RecordIterator yields: Ok  *)
(* records (their type, and whether the record's own reader decodes the    *)
(* payload) or an Err.                                                     *)
(***************************************************************************)
\* the record types the block declares: LOCATOR, METADATA of MainBlock and
\* CRYPT .. UOWNER of FileBlock
RecordTags(block) == IF block = "Main" THEN {1, 2} ELSE {1, 2, 3, 4, 5, 6}

\* let mut $var_name = None; let mut $unknown = vec![]
ParseStart(block) ==
    [res |-> "Ok", fields |-> [t \in RecordTags(block) |-> 0], unknown_records |-> <<>>]

\* DispatchOne where a later record of a decoded type replaces the field
DispatchOne_LastWins(st, item, i) ==
    IF item.res = "Err" THEN [st EXCEPT !.res = "Err"]
    ELSE IF item.record_type \in DOMAIN st.fields
    THEN IF item.readable
         THEN [st EXCEPT !.fields[item.record_type] = i]
         ELSE [st EXCEPT !.res = "Err"]
    ELSE [st EXCEPT !.unknown_records = Append(@, item.record_type)]

\* One turn of the for loop on the i-th item: record?, then the match on
\* record.record_type.  A field holds the index of the record decoded into it
\* (0: None).
DispatchOne(st, item, i) ==
    IF item.res = "Err" THEN [st EXCEPT !.res = "Err"]
    ELSE IF item.record_type \in DOMAIN st.fields /\ st.fields[item.record_type] = 0
    THEN IF item.readable
         THEN [st EXCEPT !.fields[item.record_type] = i]
         ELSE [st EXCEPT !.res = "Err"]
    ELSE [st EXCEPT !.unknown_records = Append(@, item.record_type)]

RECURSIVE ParseFrom(_, _, _)
ParseFrom(items, i, st) ==
    IF i > Len(items) \/ st.res = "Err" THEN st
    ELSE ParseFrom(items, i + 1, DispatchOne(st, items[i], i))

parse_records(block, items) == ParseFrom(items, 1, ParseStart(block))

\* the record types of the inputs: declared by both blocks, by FileBlock only,
\* by none
InputTags == {1, 2, 6, 7}

RecordItems ==
    {[res |-> "Ok", record_type |-> t, readable |-> r] : t \in InputTags, r \in BOOLEAN}
    \cup {[res |-> "Err", record_type |-> 0, readable |-> FALSE]}

SeqsUpTo(S, n) == UNION {[1..k -> S] : k \in 0..n}

ParseInit ==
    /\ OnlyCall("parse_records")
    /\ arg \in {[block |-> b, items |-> items] :
                   b \in {"Main", "File"}, items \in SeqsUpTo(RecordItems, MaxRecords)}

ParseRecords == Call("parse_records", parse_records(arg.block, arg.items))

ParseSpec == ParseInit /\ [][ParseRecords]_vars

\* the i-th item is the first record of a type the block declares
IsFirstOfTag(i) ==
    /\ arg.items[i].record_type \in RecordTags(arg.block)
    /\ \A j \in 1..(i - 1) : arg.items[j].record_type # arg.items[i].record_type

\* the indexes, in order, of the records that are not the first of a declared type
FoldedIndexes ==
    SelectSeq([i \in 1..Len(arg.items) |-> i], LAMBDA i : ~IsFirstOfTag(i))

\* C11: when parse_records completes, each declared field holds the first
\* record of its type, unknown_records holds the types of all the other
\* records (later records of a decoded type, records of undeclared types) in
\* extra-area order, one entry each, so every record is accounted for exactly
\* once; such a record never makes the parse fail.
C11_FirstWinsDispatch ==
    format = "parse_records" =>
        /\ ret.res = "Ok" =>
              /\ \A t \in RecordTags(arg.block) :
                    IF \E i \in 1..Len(arg.items) : arg.items[i].record_type = t
                    THEN ret.fields[t] > 0
                         /\ IsFirstOfTag(ret.fields[t])
                         /\ arg.items[ret.fields[t]].record_type = t
                    ELSE ret.fields[t] = 0
              /\ ret.unknown_records
                     = [k \in 1..Len(FoldedIndexes) |->
                           arg.items[FoldedIndexes[k]].record_type]
              /\ Len(ret.unknown_records)
                 + Cardinality({t \in RecordTags(arg.block) : ret.fields[t] > 0})
                     = Len(arg.items)
        /\ ret.res = "Err" =>
              \E i \in 1..Len(arg.items) :
                  \/ arg.items[i].res = "Err"
                  \/ IsFirstOfTag(i) /\ ~arg.items[i].readable

\* a parse that completed over a repeated declared type, whose later record
\* does not decode, and an undeclared type
C11_Witness ==
    /\ format = "parse_records"
    /\ ret.res = "Ok"
    /\ Len(ret.unknown_records) = 2
    /\ \E i \in 1..Len(arg.items) :
          /\ arg.items[i].record_type \in RecordTags(arg.block)
          /\ ~IsFirstOfTag(i)
          /\ ~arg.items[i].readable
    /\ \E i \in 1..Len(arg.items) : arg.items[i].record_type \notin RecordTags(arg.block)

(***************************************************************************)
(* String::from_utf8 and char::from_u32, as the name decoders use them.  A *)
(* String is the sequence of its code points.                              *)
(***************************************************************************)
\* char::from_u32: a scalar value is a code point that is no surrogate
IsChar(c) == c >= 0 /\ c <= 1114111 /\ ~(c >= 55296 /\ c <= 57343)

IsContinuation(b) == b >= 128 /\ b <= 191

\* the number of bytes the lead byte announces (0: no lead byte)
Utf8Width(b) ==
    IF b < 128 THEN 1
    ELSE IF b >= 192 /\ b <= 223 THEN 2
    ELSE IF b >= 224 /\ b <= 239 THEN 3
    ELSE IF b >= 240 /\ b <= 247 THEN 4
    ELSE 0

\* the smallest code point that needs w bytes
Utf8Min(w) == IF w = 1 THEN 0 ELSE IF w = 2 THEN 128 ELSE IF w = 3 THEN 2048 ELSE 65536

\* the code point of the w bytes after position pos
Utf8CodePoint(bytes, pos, w) ==
    IF w = 1 THEN bytes[pos + 1]
    ELSE IF w = 2 THEN (bytes[pos + 1] - 192) * 64 + (bytes[pos + 2] - 128)
    ELSE IF w = 3 THEN (bytes[pos + 1] - 224) * 4096 + (bytes[pos + 2] - 128) * 64
                       + (bytes[pos + 3] - 128)
    ELSE (bytes[pos + 1] - 240) * 262144 + (bytes[pos + 2] - 128) * 4096
         + (bytes[pos + 3] - 128) * 64 + (bytes[pos + 4] - 128)

\* String::from_utf8 from position pos on: the code points, or <<-1>> when the
\* bytes are not UTF-8
RECURSIVE Utf8From(_, _, _)
Utf8From(bytes, pos, chars) ==
    IF pos >= Len(bytes) THEN chars
    ELSE LET w == Utf8Width(bytes[pos + 1])
         IN  IF w = 0 \/ pos + w > Len(bytes)
                \/ ~(\A k \in 2..w : IsContinuation(bytes[pos + k]))
             THEN <<-1>>
             ELSE LET c == Utf8CodePoint(bytes, pos, w)
                  IN  IF c < Utf8Min(w) \/ ~IsChar(c)
                      THEN <<-1>>
                      ELSE Utf8From(bytes, pos + w, Append(chars, c))

StrOk(chars) == [res |-> "Ok", chars |-> chars, bytes |-> <<>>]
StrErr(bytes) == [res |-> "Err", chars |-> <<>>, bytes |-> bytes]

\* String::from_utf8(bytes).map_err(|e| e.into_bytes())
from_utf8(bytes) ==
    LET chars == Utf8From(bytes, 0, <<>>)
    IN  IF chars = <<-1>> THEN StrErr(bytes) ELSE StrOk(chars)

(***************************************************************************)
(* rar15/decode_file_name.rs.                                              *)
(***************************************************************************)
\* the instructions of a byte, lowest bits first
Instruction_LowestFirst(instructions, pos) == (instructions \div (2 ^ (pos * 2))) % 4

\* Instruction::new: the 2-bit instruction at position pos (0..3) of the byte
Instruction(instructions, pos) == (instructions \div (2 ^ ((3 - pos) * 2))) % 4

\* CopyNameInstruction::new: Chunk(length + 2) or
\* ChunkWithCorrection(length & !0x80)
CopyNameInstruction(length) ==
    IF length >= 128
    THEN [correction |-> TRUE, length |-> length - 128]
    ELSE [correction |-> FALSE, length |-> length + 2]

Failed == [ok |-> FALSE, pos |-> 0, out |-> <<>>]
Pushed(pos, out) == [ok |-> TRUE, pos |-> pos, out |-> out]

\* the loop of a name chunk: length characters from the original name at the
\* running index, each plus the correction and with the high byte (0, 0 for a
\* plain chunk)
NameChunk(original, out, pos, length, correction, high_byte) ==
    IF Len(out) + length > Len(original)
    THEN Failed
    ELSE IF \E k \in 1..length :
                ~IsChar(((original[Len(out) + k] + correction) % 256) + high_byte * 256)
    THEN Failed
    ELSE Pushed(pos, out \o [k \in 1..length |->
                        ((original[Len(out) + k] + correction) % 256) + high_byte * 256])

\* one instruction, the byte-code read from position pos on (a byte is left)
Execute(original, code, pos, high_byte, out, instruction) ==
    CASE instruction = 0 -> Pushed(pos + 1, Append(out, code[pos + 1]))
      [] instruction = 1 ->
            IF IsChar(code[pos + 1] + high_byte * 256)
            THEN Pushed(pos + 1, Append(out, code[pos + 1] + high_byte * 256))
            ELSE Failed
      [] instruction = 2 ->
            IF pos + 2 > Len(code) THEN Failed
            ELSE IF IsChar(code[pos + 1] + code[pos + 2] * 256)
            THEN Pushed(pos + 2, Append(out, code[pos + 1] + code[pos + 2] * 256))
            ELSE Failed
      [] instruction = 3 ->
            LET chunk == CopyNameInstruction(code[pos + 1])
            IN  IF ~chunk.correction
                THEN NameChunk(original, out, pos + 1, chunk.length, 0, 0)
                ELSE IF pos + 2 > Len(code) THEN Failed
                ELSE NameChunk(original, out, pos + 2, chunk.length,
                               code[pos + 2], high_byte)

\* the loops of decode_rar_encoded_string: the instruction bytes ('outer) and
\* the four instructions of one byte
RECURSIVE Outer(_, _, _, _, _)
RECURSIVE Inner(_, _, _, _, _, _, _)
Outer(original, code, pos, high_byte, out) ==
    IF pos >= Len(code) THEN Pushed(pos, out)
    ELSE Inner(original, code, pos + 1, high_byte, out, code[pos + 1], 0)

Inner(original, code, pos, high_byte, out, instructions, i) ==
    IF i = 4 THEN Outer(original, code, pos, high_byte, out)
    ELSE IF pos >= Len(code) THEN Pushed(pos, out)
    ELSE LET step == Execute(original, code, pos, high_byte, out,
                             Instruction(instructions, i))
         IN  IF ~step.ok THEN Failed
             ELSE Inner(original, code, step.pos, high_byte, step.out,
                        instructions, i + 1)

\* code: the bytes after the separator
decode_rar_encoded_string(original, code) ==
    IF code = <<>> THEN Failed ELSE Outer(original, code, 1, code[1], <<>>)

\* file_name.iter().position(|c| c == &0): the index of the first 0 byte, or -1
Position0(file_name) ==
    IF \E i \in 1..Len(file_name) : file_name[i] = 0
    THEN (CHOOSE i \in 1..Len(file_name) :
              file_name[i] = 0 /\ \A j \in 1..(i - 1) : file_name[j] # 0) - 1
    ELSE -1

\* a decoder that keeps the separator of a plain name
decode_file_name_KeepSeparator(file_name) == from_utf8(file_name)

decode_file_name(file_name) ==
    LET i == Position0(file_name)
    IN  IF i >= 0 /\ Len(file_name) = i + 1
        THEN from_utf8(SubSeq(file_name, 1, Len(file_name) - 1))
        ELSE IF i < 0
        THEN from_utf8(file_name)
        ELSE LET decoded_name ==
                     decode_rar_encoded_string(SubSeq(file_name, 1, i),
                                               SubSeq(file_name, i + 2, Len(file_name)))
             IN  IF decoded_name.ok THEN StrOk(decoded_name.out) ELSE StrErr(file_name)

\* the bytes of plain names: A, the 2-byte and 3-byte characters they form
\* (C3 A9, E0 A9 A9), and bytes that break UTF-8
PlainBytes == {65, 195, 169, 224, 128, 255}

\* plain fields: no 0 byte, or one 0 byte at the end
PlainNames(n) ==
    {name \o tail : name \in SeqsUpTo(PlainBytes, n), tail \in {<<>>, <<0>>}}

\* the bytes of the names before the separator, and those of the byte-code:
\* high bytes and operands, the instruction bytes 10 00 00 00 (80), 11 01 10 00
\* (D8), 11 11 00 00 (F0), the chunk lengths 0, 80, 81, the high byte D8 of the
\* surrogates
OriginalBytes == {65, 255}
CodeBytes == {0, 128, 129, 216, 240}

EncodedNames(n, c) ==
    {name \o <<0>> \o code :
        name \in SeqsUpTo(OriginalBytes, n),
        code \in SeqsUpTo(CodeBytes, c) \ {<<>>}}

DecodeFileName == Call("decode_file_name", decode_file_name(arg))

NameInit ==
    /\ OnlyCall("decode_file_name")
    /\ arg \in PlainNames(MaxNameLen) \cup EncodedNames(MaxNameLen, MaxCodeLen)

NameSpec == NameInit /\ [][DecodeFileName]_vars

Decoded == format = "decode_file_name" /\ ret # NotCalled

\* C12: whenever decode_file_name does not produce a string, its Err carries
\* exactly the bytes of the field it was given, unchanged (it returns for every
\* input: Ok or Err).
C12_ErrCarriesOriginalBytes ==
    Decoded => /\ ret.res \in {"Ok", "Err"}
               /\ (ret.res = "Err" => ret.bytes = arg)

\* the name before the separator and the byte-code after it
NameOf(field) == SubSeq(field, 1, Position0(field))
CodeOf(field) == SubSeq(field, Position0(field) + 2, Len(field))

\* the characters the format gives a name chunk with control byte L and
\* correction C at running index n
ChunkCount(L) == (L % 128) + 2
ChunkChars(name, n, L, C, high_byte) ==
    [k \in 1..ChunkCount(L) |->
        IF L >= 128 THEN ((name[n + k] + C) % 256) + high_byte * 256 ELSE name[n + k]]

\* a program of one name chunk (no correction: 3 bytes, correction: 4 bytes)
OneChunk(code) ==
    /\ Len(code) >= 3
    /\ Instruction(code[2], 0) = 3
    /\ Len(code) = IF code[3] >= 128 THEN 4 ELSE 3

\* a program of two name chunks without correction
TwoChunks(code) ==
    /\ Len(code) = 4
    /\ Instruction(code[2], 0) = 3
    /\ Instruction(code[2], 1) = 3
    /\ code[3] < 128
    /\ code[4] < 128

\* C13: a name chunk (opcode 3) whose control byte L has the top bit set emits
\* (L & 0x7f) + 2 characters ((original_name[n] + C) & 0xFF) | (high_byte << 8),
\* one whose top bit is clear emits L + 2 characters of the original name, n
\* being the number of characters emitted so far.
C13_NameChunk ==
    (Decoded /\ Position0(arg) >= 0 /\ Position0(arg) + 1 < Len(arg)) =>
        LET name == NameOf(arg)
            code == CodeOf(arg)
        IN  /\ OneChunk(code) =>
                LET C == IF code[3] >= 128 THEN code[4] ELSE 0
                    chars == ChunkChars(name, 0, code[3], C, code[1])
                IN  (ChunkCount(code[3]) <= Len(name)
                     /\ \A k \in 1..ChunkCount(code[3]) : IsChar(chars[k]))
                        => ret = StrOk(chars)
            /\ (TwoChunks(code) /\ ChunkCount(code[3]) + ChunkCount(code[4]) <= Len(name))
                    => ret = StrOk(ChunkChars(name, 0, code[3], 0, 0)
                                   \o ChunkChars(name, ChunkCount(code[3]), code[4], 0, 0))

\* well-formed UTF-8 byte sequences (the table of the Unicode standard)
WellFormedAt(b, pos, w) ==
    CASE w = 1 -> b[pos + 1] <= 127
      [] w = 2 -> b[pos + 1] \in 194..223 /\ b[pos + 2] \in 128..191
      [] w = 3 -> /\ \/ b[pos + 1] = 224 /\ b[pos + 2] \in 160..191
                     \/ b[pos + 1] \in 225..236 /\ b[pos + 2] \in 128..191
                     \/ b[pos + 1] = 237 /\ b[pos + 2] \in 128..159
                     \/ b[pos + 1] \in 238..239 /\ b[pos + 2] \in 128..191
                  /\ b[pos + 3] \in 128..191
      [] w = 4 -> /\ \/ b[pos + 1] = 240 /\ b[pos + 2] \in 144..191
                     \/ b[pos + 1] \in 241..243 /\ b[pos + 2] \in 128..191
                     \/ b[pos + 1] = 244 /\ b[pos + 2] \in 128..143
                  /\ b[pos + 3] \in 128..191
                  /\ b[pos + 4] \in 128..191

RECURSIVE WellFormedFrom(_, _)
WellFormedFrom(b, pos) ==
    \/ pos = Len(b)
    \/ \E w \in 1..4 : /\ pos + w <= Len(b)
                       /\ WellFormedAt(b, pos, w)
                       /\ WellFormedFrom(b, pos + w)

WellFormedUtf8(b) == WellFormedFrom(b, 0)

\* the UTF-8 bytes of a code point, and of a string
EncodeChar(c) ==
    IF c < 128 THEN <<c>>
    ELSE IF c < 2048 THEN <<192 + (c \div 64), 128 + (c % 64)>>
    ELSE IF c < 65536
    THEN <<224 + (c \div 4096), 128 + ((c \div 64) % 64), 128 + (c % 64)>>
    ELSE <<240 + (c \div 262144), 128 + ((c \div 4096) % 64),
           128 + ((c \div 64) % 64), 128 + (c % 64)>>

RECURSIVE Utf8Bytes(_)
Utf8Bytes(chars) ==
    IF chars = <<>> THEN <<>> ELSE EncodeChar(Head(chars)) \o Utf8Bytes(Tail(chars))

IsPlain(field) == Position0(field) < 0 \/ Position0(field) + 1 = Len(field)
PlainText(field) == IF Position0(field) < 0 THEN field ELSE NameOf(field)

\* C14: a field without a 0 byte, or whose first 0 byte is its last byte, is
\* plain text: when the bytes before the separator are valid UTF-8 the result
\* is Ok of the string of exactly those bytes.
C14_PlainText ==
    (Decoded /\ IsPlain(arg) /\ WellFormedUtf8(PlainText(arg))) =>
        /\ ret.res = "Ok"
        /\ \A k \in 1..Len(ret.chars) : IsChar(ret.chars[k])
        /\ Utf8Bytes(ret.chars) = PlainText(arg)

C14_Witness ==
    /\ Decoded
    /\ arg = <<65, 195, 169, 0>>
    /\ ret = StrOk(<<65, 233>>)

(***************************************************************************)
(* rar50/helpers.rs: unmap_high_ascii_chars.                               *)
(***************************************************************************)
MAPPED_STRING_MARK == 65534
MAP_CHAR == 57344
MAP_RANGE == 57472..57599

\* a closure that leaves the mapped characters where they are
UnmapChar_NoShift(c) == IF c = MAPPED_STRING_MARK THEN <<>> ELSE <<c>>

\* the closure of filter_map: the characters (none or one) a character becomes
UnmapChar(c) ==
    IF c \in MAP_RANGE THEN (IF IsChar(c - MAP_CHAR) THEN <<c - MAP_CHAR>> ELSE <<>>)
    ELSE IF c = MAPPED_STRING_MARK THEN <<>>
    ELSE <<c>>

RECURSIVE FilterMap(_)
FilterMap(chars) ==
    IF chars = <<>> THEN <<>> ELSE UnmapChar(Head(chars)) \o FilterMap(Tail(chars))

unmap_high_ascii_chars(buf) ==
    LET string == from_utf8(buf)
    IN  IF string.res = "Err" THEN string
        ELSE IF \E k \in 1..Len(string.chars) : string.chars[k] = MAPPED_STRING_MARK
        THEN StrOk(FilterMap(string.chars))
        ELSE string

\* the pieces of the names: the UTF-8 bytes of A, U+00C6, U+E07F, U+E080,
\* U+E0C6, U+E0FF, U+E100 and of the mark U+FFFE, and pieces that are not UTF-8
NamePieces ==
    {<<65>>, <<195, 134>>, <<238, 129, 191>>, <<238, 130, 128>>, <<238, 131, 134>>,
     <<238, 131, 191>>, <<238, 132, 128>>, <<239, 191, 190>>, <<255>>, <<238, 131>>}

RECURSIVE Flatten(_)
Flatten(pieces) == IF pieces = <<>> THEN <<>> ELSE Head(pieces) \o Flatten(Tail(pieces))

Rar50Names(n) == {Flatten(pieces) : pieces \in SeqsUpTo(NamePieces, n)}

UnmapInit ==
    /\ OnlyCall("unmap_high_ascii_chars")
    /\ arg \in Rar50Names(MaxNameChars)

UnmapHighAsciiChars == Call("unmap_high_ascii_chars", unmap_high_ascii_chars(arg))

UnmapSpec == UnmapInit /\ [][UnmapHighAsciiChars]_vars

Unmapped == format = "unmap_high_ascii_chars" /\ ret # NotCalled

\* the code points of a valid name (checked against the encoder)
CodePoints(bytes) == Utf8From(bytes, 0, <<>>)
IsMark(c) == c = 65534
NotMark(c) == c # 65534
Shifted(chars) == [k \in 1..Len(chars) |->
                      IF chars[k] >= 57472 /\ chars[k] <= 57599 THEN chars[k] - 57344
                      ELSE chars[k]]

\* C15: for valid UTF-8 holding the mark U+FFFE the result is the code points in
\* order without the marks, those in U+E080..U+E0FF lowered by 0xE000; without
\* the mark the string is unchanged; bytes that are not UTF-8 give Err of the
\* bytes.
C15_UnmapHighAscii ==
    Unmapped =>
        IF WellFormedUtf8(arg)
        THEN LET chars == CodePoints(arg)
             IN  /\ Utf8Bytes(chars) = arg
                 /\ ret = IF SelectSeq(chars, IsMark) # <<>>
                          THEN StrOk(Shifted(SelectSeq(chars, NotMark)))
                          ELSE StrOk(chars)
        ELSE ret = StrErr(arg)

C15_Witness ==
    /\ Unmapped
    /\ arg = <<239, 191, 190, 238, 131, 134>>
    /\ ret = StrOk(<<198>>)

(***************************************************************************)
(* time_conv.rs: parse_dos_datetime.  A u32 is the pair of its 16-bit      *)
(* halves [hi, lo]; a PrimitiveDateTime is the record of its components.   *)
(***************************************************************************)
U32(hi, lo) == [hi |-> hi, lo |-> lo]

\* time::util::is_leap_year and days_in_month, as Date::from_calendar_date
\* uses them
is_leap_year(year) == year % 4 = 0 /\ (year % 25 # 0 \/ year % 16 = 0)
days_in_month(year, month) ==
    IF month \in {4, 6, 9, 11} THEN 30
    ELSE IF month = 2 THEN (IF is_leap_year(year) THEN 29 ELSE 28)
    ELSE 31

TimeOk(year, month, day, hour, minute, second, nanosecond) == [res |-> "Ok", year |-> year, month |-> month, day |-> day, hour |-> hour, minute |-> minute, second |-> second, nanosecond |-> nanosecond]
TimeErr(raw) == [res |-> "Err", raw |-> raw]
ComponentRange == [res |-> "Err"]

\* a second field that is not doubled
DosSecond_NotDoubled(dos_time) == dos_time.lo % 32

DosSecond(dos_time) == (dos_time.lo % 32) * 2
DosMinute(dos_time) == (dos_time.lo \div 32) % 64
DosHour(dos_time) == (dos_time.lo \div 2048) % 32
DosDay(dos_time) == dos_time.hi % 32
DosMonth(dos_time) == (dos_time.hi \div 32) % 16
DosYear(dos_time) == (dos_time.hi \div 512) + 1980

parse_dos_datetime(dos_time) ==
    IF ~(DosHour(dos_time) < 24 /\ DosMinute(dos_time) < 60 /\ DosSecond(dos_time) < 60)
    THEN ComponentRange
    ELSE IF ~(DosMonth(dos_time) \in 1..12)
    THEN ComponentRange
    ELSE IF ~(DosDay(dos_time) >= 1
              /\ DosDay(dos_time) <= days_in_month(DosYear(dos_time), DosMonth(dos_time)))
    THEN ComponentRange
    ELSE TimeOk(DosYear(dos_time), DosMonth(dos_time), DosDay(dos_time),
                DosHour(dos_time), DosMinute(dos_time), DosSecond(dos_time), 0)

\* time_conv::parse_dos_datetime(modification_time).map_err(|_| modification_time)
ReadDosTime(raw) ==
    LET t == parse_dos_datetime(raw) IN IF t.res = "Ok" THEN t ELSE TimeErr(raw)

\* the fields of the DOS values: the edges of each component's range
SecondFields == {0, 29, 30, 31}
MinuteFields == {0, 59, 60, 63}
HourFields == {0, 23, 24, 31}
DayFields == {0, 1, 28, 29, 30, 31}
MonthFields == {0, 1, 2, 4, 12, 13, 15}
YearFields == {0, 1, 20, 120, 127}

DosTimes(years) ==
    {U32(y * 512 + mo * 32 + d, h * 2048 + mi * 32 + sec) :
        y \in years, mo \in MonthFields, d \in DayFields,
        h \in HourFields, mi \in MinuteFields, sec \in SecondFields}

DosInit ==
    /\ OnlyCall("parse_dos_datetime")
    /\ arg \in DosTimes(YearFields)

\* the block readers: the block is returned with the time or the raw value
ReadModificationTime ==
    Call("parse_dos_datetime", [block |-> "Ok", modification_time |-> ReadDosTime(arg)])

DosSpec == DosInit /\ [][ReadModificationTime]_vars

DosRead == format = "parse_dos_datetime" /\ ret # NotCalled

\* bits from..to of a 16-bit half
BitsOf(x, from, to) == (x \div (2 ^ from)) % (2 ^ (to - from + 1))

LeapYear(y) == y % 4 = 0 /\ (y % 100 # 0 \/ y % 400 = 0)
MonthLength(y, mo) ==
    CASE mo \in {1, 3, 5, 7, 8, 10, 12} -> 31
      [] mo \in {4, 6, 9, 11} -> 30
      [] mo = 2 -> IF LeapYear(y) THEN 29 ELSE 28

\* the time a DOS value stands for: second = bits 0-4 times 2, minute = bits
\* 5-10, hour = bits 11-15, day = bits 16-20, month = bits 21-24, year = bits
\* 25-31 plus 1980, when they form a valid date and time
DosValue(raw) ==
    LET second == BitsOf(raw.lo, 0, 4) * 2
        minute == BitsOf(raw.lo, 5, 10)
        hour == BitsOf(raw.lo, 11, 15)
        day == BitsOf(raw.hi, 0, 4)
        month == BitsOf(raw.hi, 5, 8)
        year == BitsOf(raw.hi, 9, 15) + 1980
        valid == /\ second <= 59
                 /\ minute <= 59
                 /\ hour <= 23
                 /\ month \in 1..12
                 /\ day >= 1
                 /\ day <= MonthLength(year, month)
    IN  IF valid THEN TimeOk(year, month, day, hour, minute, second, 0)
        ELSE TimeErr(raw)

\* C16: the components are second = bits 0-4 times 2, minute = bits 5-10, hour
\* = bits 11-15, day = bits 16-20, month = bits 21-24, year = bits 25-31 plus
\* 1980; the value is a time exactly when they form a valid date and time, and
\* otherwise the reader keeps the raw value as Err and returns the block.
C16_DosDateTime ==
    DosRead => /\ ret.block = "Ok"
               /\ ret.modification_time = DosValue(arg)

C16_Witness ==
    /\ DosRead
    /\ arg = U32(20 * 512 + 2 * 32 + 29, 23 * 2048 + 59 * 32 + 29)
    /\ ret.modification_time = TimeOk(2000, 2, 29, 23, 59, 58, 0)

(***************************************************************************)
(* rar15/extended_time.rs.  The reader is the byte sequence and a          *)
(* position; a read beyond the end is the io error of read_exact.          *)
(***************************************************************************)
IoErr == [res |-> "IoErr"]
NoTime == [res |-> "None"]

\* read.rs: read_u16 and read_u32 (little-endian), read_vint_sized
read_u16(bytes, pos) ==
    IF pos + 2 > Len(bytes) THEN [ok |-> FALSE, val |-> 0, pos |-> pos]
    ELSE [ok |-> TRUE, val |-> bytes[pos + 1] + bytes[pos + 2] * 256, pos |-> pos + 2]

read_u32(bytes, pos) ==
    IF pos + 4 > Len(bytes) THEN [ok |-> FALSE, val |-> U32(0, 0), pos |-> pos]
    ELSE [ok |-> TRUE,
          val |-> U32(bytes[pos + 3] + bytes[pos + 4] * 256,
                      bytes[pos + 1] + bytes[pos + 2] * 256),
          pos |-> pos + 4]

RECURSIVE VintSizedFrom(_, _, _, _, _)
VintSizedFrom(bytes, pos, size, i, num) ==
    IF i = size THEN [ok |-> TRUE, val |-> num, pos |-> pos]
    ELSE IF pos >= Len(bytes) THEN [ok |-> FALSE, val |-> 0, pos |-> pos]
    ELSE VintSizedFrom(bytes, pos + 1, size, i + 1, num + bytes[pos + 1] * (2 ^ (i * 8)))

read_vint_sized(bytes, pos, size) == VintSizedFrom(bytes, pos, size, 0, 0)

\* ExtendedTimeFlags
EXISTS == 8
ADD_SECOND == 4
PRECISION_MASK == 3
MAX_PRECISION == 3
shifted(flags, shift) == (flags \div (2 ^ (shift * 4))) % 16
exists(flags) == (flags \div EXISTS) % 2 = 1
add_second(flags) == (flags \div ADD_SECOND) % 2 = 1
hundred_nanos_increment_precision(flags) == flags % (PRECISION_MASK + 1)

\* the day after a date
NextDay(t) ==
    IF t.day < days_in_month(t.year, t.month) THEN [t EXCEPT !.day = @ + 1]
    ELSE IF t.month < 12 THEN [t EXCEPT !.day = 1, !.month = @ + 1]
    ELSE [t EXCEPT !.day = 1, !.month = 1, !.year = @ + 1]

\* PrimitiveDateTime::saturating_add of a duration of whole seconds and
\* nanoseconds (below two seconds in all: no saturation before the year 9999)
saturating_add(t, nanos) ==
    LET ns == t.nanosecond + nanos
        sec == t.second + ns \div 1000000000
        min == t.minute + sec \div 60
        hour == t.hour + min \div 60
        u == [t EXCEPT !.nanosecond = ns % 1000000000, !.second = sec % 60,
                       !.minute = min % 60, !.hour = hour % 24]
    IN  IF hour >= 24 THEN NextDay(u) ELSE u

\* (size bytes shifted by 3 - size bytes stay below 2^24: the u32 holds them)
read_extended_time_hundred_nanos(bytes, pos, size) ==
    LET num == read_vint_sized(bytes, pos, size)
    IN  [num EXCEPT !.val = @ * (2 ^ ((MAX_PRECISION - size) * 8))]

read_extended_time_increments(bytes, pos, t, flags) ==
    LET t1 == IF add_second(flags) THEN saturating_add(t, 1000000000) ELSE t
        hundred_nanos == read_extended_time_hundred_nanos(bytes, pos,
                             hundred_nanos_increment_precision(flags))
    IN  IF ~hundred_nanos.ok THEN [ok |-> FALSE, val |-> t, pos |-> pos]
        ELSE [ok |-> TRUE, val |-> saturating_add(t1, hundred_nanos.val * 100),
              pos |-> hundred_nanos.pos]

read_extended_time(bytes, pos, flags) ==
    IF ~exists(flags) THEN [ok |-> TRUE, val |-> NoTime, pos |-> pos]
    ELSE LET time == read_u32(bytes, pos)
         IN  IF ~time.ok THEN [ok |-> FALSE, val |-> NoTime, pos |-> pos]
             ELSE IF parse_dos_datetime(time.val).res = "Ok"
             THEN read_extended_time_increments(bytes, time.pos,
                                                parse_dos_datetime(time.val), flags)
             ELSE [ok |-> TRUE, val |-> TimeErr(time.val), pos |-> time.pos]

\* ExtendedTime::read (consumed: the position of the reader on return)
ExtendedTimeRead(bytes, modification_time) ==
    LET all_flags == read_u16(bytes, 0)
        m == IF modification_time.res = "Ok" /\ exists(shifted(all_flags.val, 3))
             THEN read_extended_time_increments(bytes, all_flags.pos, modification_time,
                                                shifted(all_flags.val, 3))
             ELSE [ok |-> TRUE, val |-> modification_time, pos |-> all_flags.pos]
        c == read_extended_time(bytes, m.pos, shifted(all_flags.val, 2))
        a == read_extended_time(bytes, c.pos, shifted(all_flags.val, 1))
        ar == read_extended_time(bytes, a.pos, shifted(all_flags.val, 0))
    IN  IF ~all_flags.ok \/ ~m.ok \/ ~c.ok \/ ~a.ok \/ ~ar.ok THEN IoErr
        ELSE [res |-> "Ok", modification_time |-> m.val, creation_time |-> c.val,
              access_time |-> a.val, archive_time |-> ar.val, consumed |-> ar.pos]

\* the flag nibbles: absent; present with 0 bytes; present, add a second, 1
\* byte; present with 3 bytes; present, add a second, 2 bytes
ExtNibbles == {0, 8, 13, 11, 14}

\* base times: 1999-12-31 23:59:58, 2000-02-28 23:59:58, and one with month 0
ExtDosTimes ==
    {U32(19 * 512 + 12 * 32 + 31, 23 * 2048 + 59 * 32 + 29),
     U32(20 * 512 + 2 * 32 + 28, 23 * 2048 + 59 * 32 + 29),
     U32(0, 0)}

\* the increment bytes of a stream
ExtIncrements == {<<255, 238, 221>>, <<1, 2, 3>>}

Le16(v) == <<v % 256, v \div 256>>
Le32(v) == Le16(v.lo) \o Le16(v.hi)

\* the bytes of one timestamp as the format lays them out: the DOS time (not
\* for the modification time), then as many increment bytes as the flags say
ExtField(nibble, with_dos, dos, inc) ==
    IF ~exists(nibble) THEN <<>>
    ELSE (IF with_dos THEN Le32(dos) ELSE <<>>)
         \o SubSeq(inc, 1, hundred_nanos_increment_precision(nibble))

ExtStream(nib, dos, inc) ==
    Le16(nib[3] * 4096 + nib[2] * 256 + nib[1] * 16 + nib[0])
    \o ExtField(nib[3], FALSE, dos[3], inc) \o ExtField(nib[2], TRUE, dos[2], inc)
    \o ExtField(nib[1], TRUE, dos[1], inc) \o ExtField(nib[0], TRUE, dos[0], inc)

\* an absent timestamp has no DOS time to choose
ExtChoices(nibbles) ==
    {[nib |-> nib, dos |-> dos, inc |-> inc] :
        nib \in [0..3 -> nibbles], dos \in [0..3 -> ExtDosTimes], inc \in ExtIncrements}

ExtInputs(nibbles) ==
    {[nib |-> x.nib, dos |-> x.dos, modification_time |-> ReadDosTime(x.dos[3]),
      bytes |-> ExtStream(x.nib, x.dos, x.inc)] :
        x \in {y \in ExtChoices(nibbles) :
                  \A i \in 0..2 : ~exists(y.nib[i]) => y.dos[i] = U32(0, 0)}}

ExtInit ==
    /\ OnlyCall("ExtendedTime::read")
    /\ arg \in ExtInputs(ExtNibbles)

ExtendedTimeReadCall ==
    Call("ExtendedTime::read", ExtendedTimeRead(arg.bytes, arg.modification_time))

ExtSpec == ExtInit /\ [][ExtendedTimeReadCall]_vars

ExtRead == format = "ExtendedTime::read" /\ ret # NotCalled

\* the layout of the format: the flags of timestamp sh (3: modification, 2:
\* creation, 1: access, 0: archive), the length and the start of its bytes
FlagsOf(bytes, sh) == BitsOf(bytes[1] + bytes[2] * 256, 4 * sh, 4 * sh + 3)
IsPresent(bytes, sh) == BitsOf(FlagsOf(bytes, sh), 3, 3) = 1
ByteCount(bytes, sh) == BitsOf(FlagsOf(bytes, sh), 0, 1)
DosLen(sh) == IF sh = 3 THEN 0 ELSE 4
FieldLen(bytes, sh) == IF IsPresent(bytes, sh) THEN DosLen(sh) + ByteCount(bytes, sh) ELSE 0

RECURSIVE FieldStart(_, _)
FieldStart(bytes, sh) ==
    IF sh = 3 THEN 2 ELSE FieldStart(bytes, sh + 1) + FieldLen(bytes, sh + 1)

\* the base time of a timestamp and its sub-second value in 100 ns
BaseTime(input, sh) ==
    IF sh = 3 THEN input.modification_time
    ELSE LET at == FieldStart(input.bytes, sh)
         IN  DosValue(U32(input.bytes[at + 3] + input.bytes[at + 4] * 256,
                          input.bytes[at + 1] + input.bytes[at + 2] * 256))

RECURSIVE SubSecondFrom(_, _, _, _)
SubSecondFrom(bytes, at, count, j) ==
    IF j = count THEN 0
    ELSE bytes[at + j + 1] * (2 ^ ((j + 3 - count) * 8)) + SubSecondFrom(bytes, at, count, j + 1)

SubSecond(bytes, sh) ==
    SubSecondFrom(bytes, FieldStart(bytes, sh) + DosLen(sh), ByteCount(bytes, sh), 0)

\* a time as day number (from 1980-01-01), second of the day and nanosecond
RECURSIVE DaysBefore(_, _)
DaysBefore(y, mo) == IF mo = 1 THEN 0 ELSE DaysBefore(y, mo - 1) + MonthLength(y, mo - 1)

DayNumber(t) ==
    365 * (t.year - 1980) + Cardinality({y \in 1980..(t.year - 1) : LeapYear(y)})
    + DaysBefore(t.year, t.month) + t.day

Ticks(t) == <<DayNumber(t), t.hour * 3600 + t.minute * 60 + t.second, t.nanosecond>>

\* base plus seconds and nanoseconds
TicksPlus(t, seconds, nanos) ==
    LET total == t.hour * 3600 + t.minute * 60 + t.second + seconds
                 + (nanos \div 1000000000)
    IN  <<DayNumber(t) + (total \div 86400), total % 86400, nanos % 1000000000>>

ResultOf(result, sh) ==
    CASE sh = 3 -> result.modification_time
      [] sh = 2 -> result.creation_time
      [] sh = 1 -> result.access_time
      [] sh = 0 -> result.archive_time

\* C17: every timestamp whose present bit is set (in the order modification,
\* creation, access, archive; the base DOS time is in the stream for the last
\* three only) is its base time, plus one second if the add-second bit is set,
\* plus 100 ns times its sub-second value: byte_count bytes, little-endian,
\* shifted left by (3 - byte_count) * 8 bits.
C17_ExtendedTime ==
    ExtRead =>
        \A sh \in 0..3 :
            (IsPresent(arg.bytes, sh) /\ BaseTime(arg, sh).res = "Ok") =>
                /\ ret.res = "Ok"
                /\ ResultOf(ret, sh).res = "Ok"
                /\ Ticks(ResultOf(ret, sh))
                     = TicksPlus(BaseTime(arg, sh),
                                 BitsOf(FlagsOf(arg.bytes, sh), 2, 2),
                                 SubSecond(arg.bytes, sh) * 100)

(***************************************************************************)
(* signature.rs: Signature::search_stream.  A stream is a run of pad zero  *)
(* bytes (the SFX binary) followed by the bytes of tail.                   *)
(***************************************************************************)
RAR14 == <<82, 69, 126, 94>>
RAR15 == <<82, 97, 114, 33, 26, 7, 0>>
RAR50 == <<82, 97, 114, 33, 26, 7, 1, 0>>
MAX_SFX_SIZE == 2097152

\* the patterns, by pattern ID, and the formats the IDs are mapped to
Patterns == <<RAR14, RAR15, RAR50>>
FormatOf(id) == CASE id = 1 -> "Rar14" [] id = 2 -> "Rar15" [] id = 3 -> "Rar50"

StreamLen(st) == st.pad + Len(st.tail)
ByteAt(st, i) == IF i < st.pad THEN 0 ELSE st.tail[i - st.pad + 1]

Min2(a, b) == IF a < b THEN a ELSE b
SetMin(S) == CHOOSE x \in S : \A y \in S : x <= y
SetMax(S) == CHOOSE x \in S : \A y \in S : x >= y

\* a reader that is not bounded
take_Unbounded(st, limit) == st

\* reader.take(limit): the first limit bytes of the stream
take(st, limit) ==
    IF st.pad >= limit THEN [pad |-> limit, tail |-> <<>>]
    ELSE [pad |-> st.pad, tail |-> SubSeq(st.tail, 1, Min2(Len(st.tail), limit - st.pad))]

\* the patterns that end with the byte before position e
EndingAt(st, e) ==
    {id \in 1..3 : /\ e >= Len(Patterns[id])
                   /\ \A j \in 1..Len(Patterns[id]) :
                          ByteAt(st, e - Len(Patterns[id]) + j - 1) = Patterns[id][j]}

\* the positions where a match can end: a pattern ends in the tail, as no
\* pattern begins with a zero byte
MatchEnds(st) == {e \in (st.pad + 1)..StreamLen(st) : EndingAt(st, e) # {}}

NoMatch == [res |-> "None", pattern |-> 0, start |-> 0]

\* a search that goes on to the last match
stream_find_Last(st) ==
    IF MatchEnds(st) = {} THEN NoMatch
    ELSE LET e == SetMax(MatchEnds(st))
             id == SetMin(EndingAt(st, e))
         IN  [res |-> "Match", pattern |-> id, start |-> e - Len(Patterns[id])]

\* ac.stream_find_iter(reader).next(): the automaton reads on until a pattern
\* ends, and reports it
stream_find(st) ==
    IF MatchEnds(st) = {} THEN NoMatch
    ELSE LET e == SetMin(MatchEnds(st))
             id == SetMin(EndingAt(st, e))
         IN  [res |-> "Match", pattern |-> id, start |-> e - Len(Patterns[id])]

\* scanned: the bytes the bounded reader can hand to the search
search_stream(st) ==
    LET bounded_reader == take(st, MAX_SFX_SIZE)
        m == stream_find(bounded_reader)
    IN  IF m.res = "None"
        THEN [res |-> "Ok", found |-> FALSE, format |-> "None", offset |-> 0,
              scanned |-> StreamLen(bounded_reader)]
        ELSE [res |-> "Ok", found |-> TRUE, format |-> FormatOf(m.pattern),
              offset |-> m.start, scanned |-> StreamLen(bounded_reader)]

\* the pieces of the streams: the signatures, their beginnings and ends
StreamPieces ==
    {RAR14, RAR15, RAR50, <<82, 97, 114, 33, 26, 7>>, <<82, 69, 126>>,
     <<82>>, <<94>>, <<0>>, <<1>>}

\* the SFX sizes: none, a few bytes, and those that bring the pieces to the end
\* of the window
PadSizes == {0, 3} \cup {MAX_SFX_SIZE - k : k \in 0..MaxBeforeLimit} \cup {MAX_SFX_SIZE + 1}

Streams(n) ==
    {[pad |-> pad, tail |-> Flatten(pieces)] :
        pad \in PadSizes, pieces \in SeqsUpTo(StreamPieces, n)}

SearchInit ==
    /\ OnlyCall("search_stream")
    /\ arg \in Streams(MaxPieces)

SearchStream == Call("search_stream", search_stream(arg))

SearchSpec == SearchInit /\ [][SearchStream]_vars

Searched == format = "search_stream" /\ ret # NotCalled

\* the signatures by format
SignatureOf(f) ==
    CASE f = "Rar14" -> <<82, 69, 126, 94>>
      [] f = "Rar15" -> <<82, 97, 114, 33, 26, 7, 0>>
      [] f = "Rar50" -> <<82, 97, 114, 33, 26, 7, 1, 0>>

\* the signature of format f occurs at offset s of the stream
OccursAt(st, f, s) ==
    /\ s >= 0
    /\ s + Len(SignatureOf(f)) <= StreamLen(st)
    /\ \A j \in 1..Len(SignatureOf(f)) : ByteAt(st, s + j - 1) = SignatureOf(f)[j]

\* the occurrences that lie in the first 0x200000 bytes
Occurrences(st) ==
    {o \in {"Rar14", "Rar15", "Rar50"} \X ((st.pad - 8)..StreamLen(st)) :
        OccursAt(st, o[1], o[2]) /\ o[2] + Len(SignatureOf(o[1])) <= 2097152}

\* C18: search_stream returns the format and the offset of the occurrence with
\* the smallest start offset among the occurrences of the three signatures in
\* the scanned prefix (offset 0 for a signature at the start of the stream).
C18_EarliestSignature ==
    (Searched /\ Occurrences(arg) # {}) =>
        /\ ret.res = "Ok"
        /\ ret.found
        /\ <<ret.format, ret.offset>> \in Occurrences(arg)
        /\ \A o \in Occurrences(arg) : ret.offset <= o[2]

C18_Witness ==
    /\ Searched
    /\ Cardinality(Occurrences(arg)) >= 2
    /\ arg.pad = 0
    /\ ret.found
    /\ ret.format = "Rar15"
    /\ ret.offset = 0

\* C19: search_stream takes at most the first 0x200000 bytes of the stream, a
\* signature it returns ends within them, and when no signature ends within
\* them the result is Ok(None), not an error.
C19_SearchWindow ==
    Searched =>
        /\ ret.res = "Ok"
        /\ ret.scanned <= 2097152
        /\ ret.found => ret.offset + Len(SignatureOf(ret.format)) <= 2097152
        /\ Occurrences(arg) = {} => ~ret.found

C19_Witness ==
    /\ Searched
    /\ \E f \in {"Rar14", "Rar15", "Rar50"} :
          /\ OccursAt(arg, f, arg.pad)
          /\ arg.pad + Len(SignatureOf(f)) = 2097152 + 1
    /\ ~ret.found

(***************************************************************************)
(* rar50/blocks.rs: the names of the File block, of the Main block's       *)
(* metadata record and of the file-system redirection record, from the     *)
(* bytes read_vec returned.                                                *)
(***************************************************************************)
Panic == [res |-> "Panic"]

\* Result::unwrap
unwrap(r) == IF r.res = "Ok" THEN r ELSE Panic

\* name.into_iter().take_while(|n| n != &0).collect()
TakeWhileNot0(name) ==
    IF Position0(name) < 0 THEN name ELSE SubSeq(name, 1, Position0(name))

\* FileBlock::read: the name is kept as the Result of unmap_high_ascii_chars
FileBlockName(name) == [res |-> "Ok", name |-> unmap_high_ascii_chars(name)]

\* MetadataRecord::read
MetadataRecordName(name) ==
    IF TakeWhileNot0(name) = <<>> THEN [res |-> "Ok", name |-> NoTime]
    ELSE LET string == unwrap(from_utf8(TakeWhileNot0(name)))
         IN  IF string = Panic THEN Panic ELSE [res |-> "Ok", name |-> string]

\* FileSystemRedirectionRecord::read
FileSystemRedirectionRecordName(name) ==
    LET string == unwrap(from_utf8(name))
    IN  IF string = Panic THEN Panic ELSE [res |-> "Ok", name |-> string]

ReadName(reader, name) ==
    CASE reader = "FileBlock" -> FileBlockName(name)
      [] reader = "MetadataRecord" -> MetadataRecordName(name)
      [] reader = "FileSystemRedirectionRecord" -> FileSystemRedirectionRecordName(name)

NameReaders == {"FileBlock", "MetadataRecord", "FileSystemRedirectionRecord"}

\* the names of UnmapSpec, also with a 0 byte and more behind them
ReadNameInit ==
    /\ OnlyCall("rar50 name")
    /\ arg \in {[reader |-> r, name |-> name \o rest] :
                   r \in NameReaders, name \in Rar50Names(MaxNameChars), rest \in {<<>>, <<0, 255>>}}

ReadNameCall == Call("rar50 name", ReadName(arg.reader, arg.name))

ReadNameSpec == ReadNameInit /\ [][ReadNameCall]_vars

NameRead == format = "rar50 name" /\ ret # NotCalled

\* the bytes a reader takes for the name
NameBytes(input) ==
    IF input.reader = "MetadataRecord" /\ Position0(input.name) >= 0
    THEN NameOf(input.name)
    ELSE input.name

\* C20: a rar50 name that is not UTF-8 (file name, archive name of the
\* metadata record, target of a redirection record) is not fatal: the reader
\* neither panics nor returns Err, and the block is Ok with the raw bytes kept.
C20_UndecodableNameIsNotFatal ==
    (NameRead /\ ~WellFormedUtf8(NameBytes(arg))) =>
        /\ ret.res = "Ok"
        /\ ret.name = StrErr(NameBytes(arg))

\* C21: the rar14 iterator decodes the header at the start offset as Main and
\* every later header as File: a File block is yielded as Ok only after a Main
\* block was yielded as Ok (the Ok items before a File block begin with Main).
C21_MainBeforeFile ==
    (format = "rar14" /\ start_in_file /\ last.tag = "ok" /\ last.block.kind = "File")
        => ok_before

(***************************************************************************)
(* macros.rs: int_enum!, and the places that decode an enumeration.        *)
(***************************************************************************)
Known(value) == [variant |-> "Known", value |-> value]
Unknown(value) == [variant |-> "Unknown", value |-> value]

\* impl From<$type>: the variant of a value, Unknown(value) for any other
int_enum(values, value) == IF value \in values THEN Known(value) ELSE Unknown(value)

\* the values of the variants
EnumValues(enum) ==
    CASE enum = "rar15::HostOs" -> 0..5
      [] enum = "rar50::HostOs" -> {0, 1}
      [] enum = "CompressionAlgorithm" -> {0, 1}
      [] enum = "CompressionMethod" -> 0..5
      [] enum = "FileSystemRedirectionType" -> 1..5
      [] enum = "EncryptionVersion" -> {0}

\* the value handed to From: the byte read (rar15), the vint cast to the
\* enum's type (rar50), or the bits of the compression information
EnumOperand(enum, on_disk) ==
    CASE enum = "rar15::HostOs" -> on_disk % 256
      [] enum = "rar50::HostOs" -> on_disk % 256
      [] enum = "CompressionAlgorithm" -> (on_disk % 64) % 256
      [] enum = "CompressionMethod" -> ((on_disk \div 128) % 8) % 256
      [] enum = "FileSystemRedirectionType" -> on_disk % 65536
      [] enum = "EncryptionVersion" -> on_disk % 256

DecodeEnum(enum, on_disk) == int_enum(EnumValues(enum), EnumOperand(enum, on_disk))

Enums ==
    {"rar15::HostOs", "rar50::HostOs", "CompressionAlgorithm", "CompressionMethod",
     "FileSystemRedirectionType", "EncryptionVersion"}

\* on-disk values: a byte for rar15, a vint for rar50 (small values, the edges
\* of 8 and 16 bits, and values whose low bits are those of a variant)
OnDiskValues(enum) ==
    IF enum = "rar15::HostOs" THEN (0..7) \cup {254, 255}
    ELSE (0..7) \cup {63, 64, 255, 256, 257, 768, 896, 65535, 65536, 65537, 65541, 1048577}

EnumInit ==
    /\ OnlyCall("int_enum")
    /\ arg \in UNION {{[enum |-> e, on_disk |-> v] : v \in OnDiskValues(e)} : e \in Enums}

DecodeEnumCall == Call("int_enum", DecodeEnum(arg.enum, arg.on_disk))

EnumSpec == EnumInit /\ [][DecodeEnumCall]_vars

EnumDecoded == format = "int_enum" /\ ret # NotCalled

\* the number the archive holds for the field: the bit field of the
\* compression information, the whole byte or vint otherwise
FieldValue(input) ==
    CASE input.enum = "CompressionAlgorithm" -> BitsOf(input.on_disk, 0, 5)
      [] input.enum = "CompressionMethod" -> BitsOf(input.on_disk, 7, 9)
      [] OTHER -> input.on_disk

\* C22: an on-disk value equal to no known variant of its enumeration decodes
\* to Unknown carrying that exact value, also when the vint is above the
\* enumeration's integer width; it is never mapped to a known variant.
C22_UnknownIsPreserved ==
    (EnumDecoded /\ FieldValue(arg) \notin EnumValues(arg.enum)) =>
        /\ ret.variant = "Unknown"
        /\ ret.value = FieldValue(arg)

(***************************************************************************)
(* time_conv.rs: parse_windows_filetime, and rar50/helpers.rs:             *)
(* read_windows_time.  A 64-bit or 128-bit integer is a sequence of 16-bit *)
(* limbs, the most significant first.                                      *)
(***************************************************************************)
Limb == 256 * 256

RECURSIVE MulFrom(_, _, _, _)
MulFrom(n, k, i, carry) ==
    IF i = 0 THEN <<carry>>
    ELSE MulFrom(n, k, i - 1, (n[i] * k + carry) \div Limb) \o <<(n[i] * k + carry) % Limb>>

\* n * k + a, for k < 2^15 and a < 2^15
MulAdd(n, k, a) == MulFrom(n, k, Len(n), a)

RECURSIVE DivFrom(_, _, _, _)
DivFrom(n, k, i, rem) ==
    IF i > Len(n) THEN [quot |-> <<>>, rem |-> rem]
    ELSE LET cur == rem * Limb + n[i]
             rest == DivFrom(n, k, i + 1, cur % k)
         IN  [quot |-> <<cur \div k>> \o rest.quot, rem |-> rest.rem]

\* quotient and remainder of n by k, for k < 2^15
DivRem(n, k) == DivFrom(n, k, 1, 0)

RECURSIVE Strip(_)
Strip(n) == IF Len(n) > 1 /\ n[1] = 0 THEN Strip(Tail(n)) ELSE n

\* the value of a number below 2^31
ToInt(n) == LET m == Strip(n) IN IF Len(m) = 1 THEN m[1] ELSE m[1] * Limb + m[2]

\* read.rs: read_u64 (little-endian)
read_u64(bytes, pos) ==
    IF pos + 8 > Len(bytes) THEN [ok |-> FALSE, val |-> <<0, 0, 0, 0>>, pos |-> pos]
    ELSE [ok |-> TRUE,
          val |-> [i \in 1..4 |-> bytes[pos + 10 - 2 * i] * 256 + bytes[pos + 9 - 2 * i]],
          pos |-> pos + 8]

WINDOWS_TICK_NS == 100
\* WINDOWS_EPOCH_DIFFERENCE is 11,644,473,600 seconds, 134774 whole days
WINDOWS_EPOCH_DAYS == 134774
\* the days from 1970-01-01 to Date::MAX, 9999-12-31
MAX_UNIX_DAY == 2932896

\* a tick of one microsecond
FiletimeNanos_Micros(filetime) == MulAdd(filetime, 1000, 0)

\* (filetime as i128) * WINDOWS_TICK_NS
FiletimeNanos(filetime) == MulAdd(filetime, WINDOWS_TICK_NS, 0)

\* Date::from_julian_day of a day counted from 1970-01-01: year and ordinal
\* by the cycles of 400, 100, 4 and 1 years, which begin at 1601-01-01
DateOfUnixDay(unix_day) ==
    LET z == unix_day + WINDOWS_EPOCH_DAYS
        r400 == z % 146097
        n100 == IF r400 \div 36524 > 3 THEN 3 ELSE r400 \div 36524
        r100 == r400 - n100 * 36524
        r4 == r100 % 1461
        n1 == IF r4 \div 365 > 3 THEN 3 ELSE r4 \div 365
    IN  [year |-> 1601 + 400 * (z \div 146097) + 100 * n100 + 4 * (r100 \div 1461) + n1,
         ordinal |-> r4 - n1 * 365 + 1]

RECURSIVE MonthOfOrdinal(_, _, _)
MonthOfOrdinal(year, month, ordinal) ==
    IF ordinal <= days_in_month(year, month) THEN [month |-> month, day |-> ordinal]
    ELSE MonthOfOrdinal(year, month + 1, ordinal - days_in_month(year, month))

\* OffsetDateTime::from_unix_timestamp_nanos of the nanoseconds counted from
\* 1601-01-01 less WINDOWS_EPOCH_DIFFERENCE: the seconds are the floor of the
\* division by 10^9, the day the floor of their division by 86400, and a
\* timestamp after Date::MAX is a ComponentRange error (no filetime is before
\* Date::MIN)
from_unix_timestamp_nanos(nanos_1601) ==
    LET n3 == DivRem(nanos_1601, 1000)
        n6 == DivRem(n3.quot, 1000)
        n9 == DivRem(n6.quot, 1000)
        s2 == DivRem(n9.quot, 100)
        s5 == DivRem(s2.quot, 864)
        second_of_day == s5.rem * 100 + s2.rem
        unix_day == ToInt(s5.quot) - WINDOWS_EPOCH_DAYS
        date == DateOfUnixDay(unix_day)
        md == MonthOfOrdinal(date.year, 1, date.ordinal)
    IN  IF unix_day > MAX_UNIX_DAY THEN ComponentRange
        ELSE TimeOk(date.year, md.month, md.day, second_of_day \div 3600,
                    (second_of_day \div 60) % 60, second_of_day % 60,
                    n9.rem * 1000000 + n6.rem * 1000 + n3.rem)

parse_windows_filetime(filetime) == from_unix_timestamp_nanos(FiletimeNanos(filetime))

read_windows_time(bytes) ==
    LET filetime == read_u64(bytes, 0)
        parsed == parse_windows_filetime(filetime.val)
    IN  IF ~filetime.ok THEN IoErr
        ELSE IF parsed.res = "Ok" THEN parsed
        ELSE TimeErr(filetime.val)

\* the 16-bit words the stored filetimes are made of, the least significant
\* first: those of 0, of 128166372003061629 and of the last tick of 9999
FiletimeWords ==
    <<{0, 40829, 16383, 16384}, {0, 58212, 53696}, {0, 22178, 23134, 65535},
      {0, 455, 9416, 9417, 65535}>>

Filetimes(short) ==
    {Le16(w0) \o Le16(w1) \o Le16(w2) \o Le16(w3) :
        w0 \in FiletimeWords[1], w1 \in FiletimeWords[2],
        w2 \in FiletimeWords[3], w3 \in FiletimeWords[4]}
    \cup {[i \in 1..n |-> 255] : n \in short}

FiletimeInit ==
    /\ OnlyCall("read_windows_time")
    /\ arg \in Filetimes({0, 7})

ReadWindowsTime == Call("read_windows_time", read_windows_time(arg))

FiletimeSpec == FiletimeInit /\ [][ReadWindowsTime]_vars

FiletimeRead == format = "read_windows_time" /\ ret # NotCalled /\ Len(arg) = 8

\* the stored value, the most significant 16 bits first
Stored(bytes) == <<bytes[8] * 256 + bytes[7], bytes[6] * 256 + bytes[5], bytes[4] * 256 + bytes[3], bytes[2] * 256 + bytes[1]>>

\* the days from 1601-01-01 to a date
DaysSince1601(t) ==
    365 * (t.year - 1601) + Cardinality({y \in 1601..(t.year - 1) : LeapYear(y)})
    + DaysBefore(t.year, t.month) + t.day - 1

\* the 100 ns ticks from 1601-01-01T00:00:00Z to a time, which is the time's
\* Unix nanoseconds plus 11,644,473,600 * 10^9, over 100
TicksSince1601(t) ==
    LET days == <<DaysSince1601(t) \div Limb, DaysSince1601(t) % Limb>>
        minutes == MulAdd(MulAdd(days, 24, t.hour), 60, t.minute)
        seconds == MulAdd(minutes, 60, t.second)
    IN  MulAdd(MulAdd(seconds, 10000, (t.nanosecond \div 100) \div 1000), 1000,
               (t.nanosecond \div 100) % 1000)

\* the first tick of the year 10000
FirstTickOutOfRange == <<9416, 23134, 53696, 16384>>

RECURSIVE Below(_, _)
Below(m, n) ==
    IF m = <<>> THEN FALSE
    ELSE m[1] < n[1] \/ (m[1] = n[1] /\ Below(Tail(m), Tail(n)))

\* C23: a stored filetime t reads as the instant whose Unix time in
\* nanoseconds is t * 100 - 11,644,473,600 * 10^9 (0 as 1601-01-01T00:00:00Z,
\* 128166372003061629 as 2007-02-22T17:00:00.3061629Z); a value after the last
\* representable date reads as Err carrying the stored 64-bit value.
C23_WindowsFiletime ==
    FiletimeRead =>
        /\ ret.res \in {"Ok", "Err"}
        /\ ret.res = "Ok" =>
            /\ ret.nanosecond % 100 = 0
            /\ Strip(TicksSince1601(ret)) = Strip(Stored(arg))
            /\ Below(Stored(arg), FirstTickOutOfRange)
        /\ ret.res = "Err" =>
            /\ ret = TimeErr(Stored(arg))
            /\ ~Below(Stored(arg), FirstTickOutOfRange)
        /\ Stored(arg) = <<0, 0, 0, 0>> => ret = TimeOk(1601, 1, 1, 0, 0, 0, 0)
        /\ Stored(arg) = <<455, 22178, 58212, 40829>> =>
            ret = TimeOk(2007, 2, 22, 17, 0, 0, 306162900)

C23_Witness ==
    /\ FiletimeRead
    /\ ret.res = "Ok"
    /\ ret.year = 2007
    /\ ret.nanosecond = 306162900

(***************************************************************************)
(* The byte-code of decode_rar_encoded_string, over programs of the        *)
(* instructions Byte, ByteWithHigh and TwoBytes.                           *)
(***************************************************************************)
MaxOperands == 7

HighBytes == {0, 1, 216}
\* 0x00: 0 0 0 0, 0x18: 0 1 2 0, 0x60: 1 2 0 0, 0x80: 2 0 0 0
InstructionBytes == {0, 24, 96, 128}
\* operands, and the instruction bytes after the first (0x41: 1 0 0 1,
\* 0xd8: 3 1 2 0)
OperandBytes == {0, 65, 216}

Programs(n) ==
    {<<65, 0>>, <<65, 0, 1>>}
    \cup {<<65, 0, high, instructions>> \o operands :
            high \in HighBytes, instructions \in InstructionBytes,
            operands \in SeqsUpTo(OperandBytes, n)}

ProgramInit ==
    /\ OnlyCall("decode_file_name")
    /\ arg \in Programs(MaxOperands)

ProgramSpec == ProgramInit /\ [][DecodeFileName]_vars

\* the code points a program emits: the byte at ip holds the opcodes, slot is
\* the number of those already taken, pos the next unread byte of the program.
\* flawed: an operand is cut short or the opcode is 3
RECURSIVE Emitted(_, _, _, _, _)
Emitted(code, ip, slot, pos, out) ==
    IF pos > Len(code) THEN [flawed |-> FALSE, chars |-> out]
    ELSE IF slot = 4 THEN Emitted(code, pos, 0, pos + 1, out)
    ELSE LET opcode == BitsOf(code[ip], 6 - 2 * slot, 7 - 2 * slot)
         IN  CASE opcode = 0 -> Emitted(code, ip, slot + 1, pos + 1, Append(out, code[pos]))
               [] opcode = 1 ->
                    Emitted(code, ip, slot + 1, pos + 1, Append(out, code[pos] + 256 * code[1]))
               [] opcode = 2 /\ pos < Len(code) ->
                    Emitted(code, ip, slot + 1, pos + 2,
                            Append(out, code[pos] + 256 * code[pos + 1]))
               [] OTHER -> [flawed |-> TRUE, chars |-> out]

ProgramOutput(code) == Emitted(code, 2, 4, 2, <<>>)

\* C24: the program's first byte is high_byte; each instruction byte holds four
\* 2-bit opcodes, bits 7-6 first, and an opcode is executed only while program
\* bytes remain, else decoding ends with what was emitted; opcode 0 emits the
\* next byte, opcode 1 the next byte | (high_byte << 8), opcode 2 the next two
\* bytes as a little-endian 16-bit code point.
C24_ProgramConsumption ==
    (Decoded /\ Position0(arg) >= 0 /\ Position0(arg) + 1 < Len(arg)) =>
        LET out == ProgramOutput(CodeOf(arg))
        IN  (~out.flawed /\ \A k \in 1..Len(out.chars) : IsChar(out.chars[k]))
                => ret = StrOk(out.chars)

\* the opcodes 0, 1, 2 and 0 of one instruction byte and an opcode of the next
C24_Witness ==
    /\ Decoded
    /\ Len(arg) = 11
    /\ arg[4] = 24
    /\ ret.res = "Ok"
    /\ Len(ret.chars) = 5
    /\ ret.chars[2] >= 256

(***************************************************************************)
(* macros.rs: the loop of parse_records over the records of                *)
(* RecordIterator, with a per-type decoder that reads from record.data.    *)
(***************************************************************************)
EndOfStream == [res |-> "UnexpectedEof"]

\* a cursor that hands out the bytes of the stream when the payload is used up
CursorRead_Lenient(data, pos, n) == [ok |-> TRUE, bytes |-> [i \in 1..n |-> IF pos + i <= Len(data) THEN data[pos + i] ELSE 0], pos |-> pos + n]

\* read_exact of n bytes on io::Cursor<Vec<u8>>
CursorRead(data, pos, n) ==
    IF pos + n > Len(data) THEN [ok |-> FALSE, bytes |-> <<>>, pos |-> pos]
    ELSE [ok |-> TRUE, bytes |-> SubSeq(data, pos + 1, pos + n), pos |-> pos + n]

\* $struct_name::read(&mut record.data)?: a decoder that reads reads[1],
\* reads[2], ... bytes in turn; got: the bytes it obtained
RECURSIVE DecoderFrom(_, _, _, _)
DecoderFrom(data, reads, pos, got) ==
    IF reads = <<>> THEN [res |-> "Ok", got |-> got]
    ELSE LET r == CursorRead(data, pos, Head(reads))
         IN  IF ~r.ok THEN [res |-> "UnexpectedEof", got |-> got]
             ELSE DecoderFrom(data, Tail(reads), r.pos, got \o r.bytes)

Decoder(data, reads) == DecoderFrom(data, reads, 0, <<>>)

NotRun == [res |-> "NotRun", got |-> <<>>]

\* one turn of the loop: next() of the iterator, record?, the decoder and its ?
ParseRecordsTurn ==
    /\ format = "parse_records_turn"
    /\ record.tag \in {"start", "ok"}
    /\ ret.res # "UnexpectedEof"
    /\ RecordStep
    /\ ret' = IF record'.tag = "ok" THEN Decoder(record'.rec.data, arg) ELSE NotRun
    /\ UNCHANGED arg

\* streams of small records: size 1 (no payload), 2 or 3, any type
DecoderBytes == {1, 2, 3}
\* the sizes of the reads of a decoder
ReadPlans == {<<0>>, <<1>>, <<2>>, <<1, 1>>, <<1, 2>>, <<3>>}

DecoderInit ==
    /\ format = "parse_records_turn"
    /\ overflow_checks = TRUE
    /\ IteratorUnused
    /\ VintUnused
    /\ stream \in [1..MaxStreamLen -> DecoderBytes]
    /\ area_start \in 0..MaxAreaStart
    /\ extra_area_size \in 0..(MaxStreamLen + 1)
    /\ end_position = area_start + extra_area_size
    /\ next_record_position = area_start
    /\ record = RecItem("start", NoRecord)
    /\ expected_start = area_start
    /\ arg \in ReadPlans
    /\ ret = NotCalled

DecoderSpec == DecoderInit /\ [][ParseRecordsTurn]_vars

RECURSIVE SumOf(_)
SumOf(q) == IF q = <<>> THEN 0 ELSE Head(q) + SumOf(Tail(q))

\* the positions of the stream (from 1) that hold the payload of the record
PayloadPositions(rec) ==
    (rec.start + rec.byte_size + rec.type_byte_size + 1)
        ..(rec.start + rec.byte_size + rec.record_size)

\* C25: a per-type decoder gets bytes of its record's payload only, in order
\* from the payload's first byte; asking for more than the payload holds is an
\* end-of-stream error; and the next record is located at the record's start
\* plus its sizes, whatever the decoder read.
C25_DecoderReadsOwnPayload ==
    (format = "parse_records_turn" /\ record.tag = "ok") =>
        LET payload == PayloadPositions(record.rec)
            first == record.rec.start + record.rec.byte_size + record.rec.type_byte_size
        IN  /\ ret.res \in {"Ok", "UnexpectedEof"}
            /\ Len(ret.got) <= Cardinality(payload)
            /\ \A i \in 1..Len(ret.got) :
                   first + i \in payload /\ ret.got[i] = stream[first + i]
            /\ ret.res = "UnexpectedEof" <=> SumOf(arg) > Cardinality(payload)
            /\ ret.res = "Ok" => Len(ret.got) = SumOf(arg)
            /\ next_record_position
                   = record.rec.start + record.rec.byte_size + record.rec.record_size

\* a decoder obtained the one byte of its payload and asked for more, with
\* a following record inside the extra area
C25_Witness ==
    /\ format = "parse_records_turn"
    /\ record.tag = "ok"
    /\ ret.res = "UnexpectedEof"
    /\ Len(ret.got) = 1
    /\ next_record_position < end_position
    /\ next_record_position < Len(stream)

(***************************************************************************)
(* rar50/blocks.rs: ServiceBlock::read, its parse_records! with the arm of *)
(* SERVICE_DATA.  The input is the block's name and the items of the       *)
(* RecordIterator, as for parse_records.                                   *)
(***************************************************************************)
SERVICE_DATA == 7

\* let mut recovery_record = None, and the variables of parse_records!
ServiceStart ==
    [res |-> "Ok", fields |-> [t \in RecordTags("Service") |-> 0],
     unknown_records |-> <<>>, recovery_record |-> 0]

\* one turn of the loop: the arms of the declared types with their guard
\* $var_name.is_none(), then the arm of SERVICE_DATA, then the arm _
ServiceDispatchOne(st, item, i, name) ==
    IF item.res = "Err" THEN [st EXCEPT !.res = "Err"]
    ELSE IF item.record_type \in DOMAIN st.fields /\ st.fields[item.record_type] = 0
    THEN IF item.readable
         THEN [st EXCEPT !.fields[item.record_type] = i]
         ELSE [st EXCEPT !.res = "Err"]
    ELSE IF item.record_type = SERVICE_DATA
    THEN IF name = "RR"
         THEN IF item.readable
              THEN [st EXCEPT !.recovery_record = i]
              ELSE [st EXCEPT !.res = "Err"]
         ELSE [st EXCEPT !.unknown_records = Append(@, SERVICE_DATA)]
    ELSE [st EXCEPT !.unknown_records = Append(@, item.record_type)]

RECURSIVE ServiceParseFrom(_, _, _, _)
ServiceParseFrom(items, i, st, name) ==
    IF i > Len(items) \/ st.res = "Err" THEN st
    ELSE ServiceParseFrom(items, i + 1, ServiceDispatchOne(st, items[i], i, name), name)

ServiceBlockRecords(name, items) == ServiceParseFrom(items, 1, ServiceStart, name)

\* the names of a recovery record and of a comment; record types: declared,
\* SERVICE_DATA, undeclared
ServiceNames == {"RR", "CMT"}
ServiceTags == {1, 7, 8}

ServiceItems ==
    {[res |-> "Ok", record_type |-> t, readable |-> r] : t \in ServiceTags, r \in BOOLEAN}
    \cup {[res |-> "Err", record_type |-> 0, readable |-> FALSE]}

ServiceInit ==
    /\ OnlyCall("ServiceBlock::read")
    /\ arg \in {[name |-> n, items |-> items] :
                   n \in ServiceNames, items \in SeqsUpTo(ServiceItems, MaxRecords)}

ServiceBlockRead == Call("ServiceBlock::read", ServiceBlockRecords(arg.name, arg.items))

ServiceSpec == ServiceInit /\ [][ServiceBlockRead]_vars

\* the indexes of the service-data records of the extra area, in order
ServiceDataIndexes ==
    SelectSeq([i \in 1..Len(arg.items) |-> i],
              LAMBDA i : arg.items[i].record_type = SERVICE_DATA)

\* C26: in a Service block named "RR" only the first service-data record (tag
\* 0x07) is decoded into the recovery-record info; each later one is added to
\* unknown_records with its tag.
C26_FirstServiceDataWins ==
    (format = "ServiceBlock::read" /\ ret # NotCalled /\ arg.name = "RR"
     /\ ret.res = "Ok" /\ ServiceDataIndexes # <<>>) =>
        /\ ret.recovery_record = ServiceDataIndexes[1]
        /\ Len(SelectSeq(ret.unknown_records, LAMBDA t : t = SERVICE_DATA))
               = Len(ServiceDataIndexes) - 1

\* C27: once next() of a block iterator has returned None, every later next()
\* returns None without a seek or a read, and leaves next_offset and
\* end_of_archive_reached as they are.
C27_NoneIsFinal ==
    [][last.tag = "none" =>
          /\ last'.tag = "none"
          /\ next_offset' = next_offset
          /\ end_of_archive_reached' = end_of_archive_reached
          /\ has_read_main_block' = has_read_main_block
          /\ decoded' = decoded]_vars

\* None was returned twice in a row after a block
C27_Witness ==
    /\ format \in {"rar14", "rar15", "rar50"}
    /\ last.tag = "none"
    /\ idle_calls = 0
    /\ ok_before
    /\ ~err_before

\* C28: ExtendedTime::read consumes 2 bytes of flags and, for each timestamp
\* whose present bit is set, its byte_count sub-second bytes and (not for the
\* modification time) 4 bytes of DOS time, whether or not the base times
\* convert to valid calendar times.
C28_ConsumedByFlagsAlone ==
    (ExtRead /\ ret.res = "Ok") =>
        ret.consumed = 2 + FieldLen(arg.bytes, 3) + FieldLen(arg.bytes, 2)
                         + FieldLen(arg.bytes, 1) + FieldLen(arg.bytes, 0)

\* C29: a record the iterator yields lies wholly inside the extra area: its
\* start plus the length of its size vint plus record_size is at most the area
\* start plus extra_area_size.
C29_RecordInsideArea ==
    (format = "records" /\ record.tag = "ok") =>
        WideLeq(Wide(record.rec.start + record.rec.byte_size + record.rec.record_size),
                AreaEnd)

(***************************************************************************)
(* rar15/blocks.rs: the sizes of FileBlock::read and ServiceBlock::read.   *)
(* A u64 is its high and its low 32-bit word, each a U32.                  *)
(***************************************************************************)
U64(high, low) == [high |-> high, low |-> low]

\* u32 as u64
AsU64(word) == U64(U32(0, 0), word)

\* v >> 32 on u64
Shr32(v) == U64(U32(0, 0), v.high)

RECURSIVE Or16(_, _)
Or16(a, b) ==
    IF a = 0 THEN b
    ELSE IF b = 0 THEN a
    ELSE (IF a % 2 = 1 \/ b % 2 = 1 THEN 1 ELSE 0) + 2 * Or16(a \div 2, b \div 2)

Or32(a, b) == U32(Or16(a.hi, b.hi), Or16(a.lo, b.lo))

\* a | b on u64
Or64(a, b) == U64(Or32(a.high, b.high), Or32(a.low, b.low))

\* flags! has_large_size = 0x0100
has_large_size(flags) == (flags \div 256) % 2 = 1

\* (high_packed_data_size >> 32) | low_packed_data_size
LargeSize(high_size, low_size) == Or64(Shr32(high_size), low_size)

\* the sizes of the block: the low words, and with the flag the high words read
\* after the attributes (sub_flags)
BlockSizes(flags, low_packed, low_unpacked, high_packed, high_unpacked) ==
    IF has_large_size(flags)
    THEN [packed_data_size |-> LargeSize(AsU64(high_packed), AsU64(low_packed)),
          unpacked_data_size |-> LargeSize(AsU64(high_unpacked), AsU64(low_unpacked))]
    ELSE [packed_data_size |-> AsU64(low_packed),
          unpacked_data_size |-> AsU64(low_unpacked)]

\* flag words without and with 0x0100, and 32-bit words
SizeFlags == {0, 2, 256, 33024}
SizeWords == {U32(0, 0), U32(0, 1), U32(1, 0), U32(65535, 65535)}

SizeInit ==
    /\ OnlyCall("rar15::sizes")
    /\ arg \in [block : {"File", "Service"}, flags : SizeFlags,
                low_packed : SizeWords, low_unpacked : SizeWords,
                high_packed : SizeWords, high_unpacked : SizeWords]

ReadSizes ==
    Call("rar15::sizes",
         BlockSizes(arg.flags, arg.low_packed, arg.low_unpacked, arg.high_packed,
                    arg.high_unpacked))

SizeSpec == SizeInit /\ [][ReadSizes]_vars

\* C30: with the large-size flag 0x0100 a rar15 File or Service header has
\* packed_data_size = high word * 2^32 + low word and unpacked_data_size
\* likewise; with the flag clear both sizes are their low words.
C30_LargeSizes ==
    (format = "rar15::sizes" /\ ret # NotCalled) =>
        IF BitsOf(arg.flags, 8, 8) = 1
        THEN /\ ret.packed_data_size = [high |-> arg.high_packed, low |-> arg.low_packed]
             /\ ret.unpacked_data_size
                    = [high |-> arg.high_unpacked, low |-> arg.low_unpacked]
        ELSE /\ ret.packed_data_size = [high |-> U32(0, 0), low |-> arg.low_packed]
             /\ ret.unpacked_data_size = [high |-> U32(0, 0), low |-> arg.low_unpacked]

====
